---- MODULE Spec2Model ----
(***************************************************************************)
(* Model of the meal selection engine of toddler-lunch                     *)
(* (src/mealGenerator.js, class MealGenerator) together with the parts of  *)
(* the Google Sheets store it reads and writes (src/googleSheetsApi.js)    *)
(* and the page that drives it (class MealPlanningApp).                    *)
(*                                                                         *)
(* Eight specifications share the variables:                               *)
(*   SpecPool      getAvailableItems / generateSingleMeal over catalogs    *)
(*                 that vary row order, item names and Last Used values;   *)
(*   SpecSelector  findOptimalItemCombination / generateReplacement over   *)
(*                 availability lists that vary the items' categories;     *)
(*   Spec          generateMealsForToday on the store, one iteration of    *)
(*                 its loop over the schedule per step.                    *)
(*   SpecApp       the page after sign-in: the day's plan is generated and *)
(*                 loaded, then swipes and picks in the category chooser;  *)
(*   SpecCap       the same page on one catalog of six items and one slot  *)
(*                 requiring all four categories;                          *)
(*   SpecPage      the page over a day boundary: the async handlers of     *)
(*                 sign-in and window focus, one await per step, with      *)
(*                 store calls that may be rejected;                       *)
(*   SpecMeals     the same page with a user who clicks Complete and Skip; *)
(*   SpecAuth      GoogleSheetsAPI signing in and out, its interval timers *)
(*                 and the token kept in localStorage.                     *)
(***************************************************************************)
EXTENDS Integers, Sequences, FiniteSets, TLC

VARIABLES
    sheetItems,     \* the store: rows of the "items" sheet
    sheetSchedule,  \* the store: rows of the "schedule" sheet
    sheetGrocery,   \* the store: names in the "grocery" sheet
    sheetCurrent,   \* the store: rows of the "current" sheet
    items,          \* MealGenerator.items
    schedule,       \* MealGenerator.schedule
    groceryList,    \* MealGenerator.groceryList
    currentMeals,   \* MealGenerator.currentMeals
    gen,            \* the running generateMealsForToday: its locals and position
    now,            \* the wall clock, in ticks
    today,          \* the local calendar day of the wall clock
    call,           \* the last call of a method or handler: arguments and result
    app,            \* MealPlanningApp: meals, currentMealIndex, modalContext
    sheetHistory,   \* the store: rows of the "history" sheet
    tasks,          \* the invocations of async handlers of the page in flight
    ui,             \* the page: loading overlay, what the card shows, buttons
    auth,           \* GoogleSheetsAPI: token, sign-in state, interval timers
    env             \* the surroundings: failed store calls and focus events so far

vars == <<sheetItems, sheetSchedule, sheetGrocery, sheetCurrent,
          items, schedule, groceryList, currentMeals, gen, now, today, call, app,
          sheetHistory, tasks, ui, auth, env>>

storeVars == <<sheetItems, sheetSchedule, sheetGrocery, sheetCurrent>>
generatorVars == <<items, schedule, groceryList, currentMeals>>
pageVars == <<sheetHistory, tasks, ui, auth, env>>

(***************************************************************************)
(* Bounds of the model.                                                    *)
(***************************************************************************)
MaxPoolItems == 3       \* rows of a catalog in SpecPool
MaxAvailable == 4       \* length of an availability list in SpecSelector
MaxDayItems == 3        \* rows of the items sheet in Spec
MaxSlots == 2           \* rows of the schedule sheet in Spec
MaxClock == 3           \* no generation starts after this tick

(***************************************************************************)
(* Generic helpers for JavaScript arrays, modelled as sequences.           *)
(***************************************************************************)
Range(s) == {s[i] : i \in 1..Len(s)}

\* Array.prototype.includes
Includes(arr, x) == \E i \in 1..Len(arr) : arr[i] = x

\* arr.splice(i, 1) on a copy
RemoveAt(arr, i) == [k \in 1..(Len(arr) - 1) |-> IF k < i THEN arr[k] ELSE arr[k + 1]]

(***************************************************************************)
(* Records of the sheets.  A cell is a string; a category flag is "y" or   *)
(* "".  A Last Used cell is described by its shape: fmt "empty" is the     *)
(* empty cell, "never" the literal default 'never', "iso" the ISO-8601     *)
(* timestamp of tick t (what toISOString writes), "mdy" the legacy         *)
(* MM/DD/YYYY date of day t.                                                *)
(***************************************************************************)
Tags == <<"Carb", "Protein", "Fruit", "Veggie">>
TagSet == Range(Tags)

\* item names, in alphabetical order
Names == <<"a", "b", "c", "d", "e", "f">>

EmptyCell == [fmt |-> "empty", t |-> 0]
NeverCell == [fmt |-> "never", t |-> 0]
IsoCell(t) == [fmt |-> "iso", t |-> t]
MdyCell(d) == [fmt |-> "mdy", t |-> d]

Flag(b) == IF b THEN "y" ELSE ""

ItemRow(name, cats, lastUsed) ==
    [Item |-> name,
     Carb |-> Flag("Carb" \in cats), Protein |-> Flag("Protein" \in cats),
     Fruit |-> Flag("Fruit" \in cats), Veggie |-> Flag("Veggie" \in cats),
     LastUsed |-> lastUsed]

SlotRow(name, cats) ==
    [Name |-> name, Time |-> "12:00 PM",
     Carb |-> Flag("Carb" \in cats), Protein |-> Flag("Protein" \in cats),
     Fruit |-> Flag("Fruit" \in cats), Veggie |-> Flag("Veggie" \in cats)]

(***************************************************************************)
(* CategoryModel: getRequiredCategories, getItemCategories,                *)
(* categoriesMatch.  The arrays keep the order Carb, Protein, Fruit,       *)
(* Veggie in which the code pushes.                                        *)
(***************************************************************************)
getRequiredCategories(scheduledMeal) ==
    SelectSeq(Tags, LAMBDA tag : scheduledMeal[tag] = "y")

getItemCategories(item) ==
    SelectSeq(Tags, LAMBDA tag : item[tag] = "y")

categoriesMatch(categories1, categories2) ==
    IF Len(categories1) # Len(categories2) THEN FALSE
    ELSE /\ \A i \in 1..Len(categories1) : categories1[i] \in Range(categories2)
         /\ \A i \in 1..Len(categories2) : categories2[i] \in Range(categories1)

(***************************************************************************)
(* ItemPool: parseDate and getAvailableItems.                              *)
(*                                                                         *)
(* A JavaScript Date is [nan, ms]: nan is TRUE for an Invalid Date, whose  *)
(* time value is NaN.  new Date(text) does not throw on text it cannot     *)
(* parse, it returns an Invalid Date, so the catch branch of parseDate is  *)
(* never taken for a string.                                               *)
(***************************************************************************)
ValidDate(ms) == [nan |-> FALSE, ms |-> ms]
InvalidDate == [nan |-> TRUE, ms |-> 0]

parseDate(dateString) ==
    IF dateString.fmt = "empty" THEN ValidDate(0)            \* !dateString
    ELSE IF dateString.fmt = "iso" THEN ValidDate(dateString.t)   \* has 'T' and 'Z'
    ELSE IF dateString.fmt = "mdy" THEN ValidDate(dateString.t)   \* has '/': local midnight
    ELSE InvalidDate                     \* new Date('never'), new Date(junk)

\* String.prototype.localeCompare on the names of the model: alphabetical
NameRank(name) == CHOOSE i \in 1..Len(Names) : Names[i] = name

localeCompare(name1, name2) ==
    IF NameRank(name1) < NameRank(name2) THEN -1
    ELSE IF NameRank(name1) > NameRank(name2) THEN 1 ELSE 0

\* A JavaScript number is [nan, v].
Num(v) == [nan |-> FALSE, v |-> v]
NaN == [nan |-> TRUE, v |-> 0]

\* dateA - dateB: NaN as soon as one of the dates is invalid
DateDiff(dateA, dateB) ==
    IF dateA.nan \/ dateB.nan THEN NaN ELSE Num(dateA.ms - dateB.ms)

\* the comparison function handed to sort; NaN !== 0 is true
compareItems(a, b) ==
    LET dateDiff == DateDiff(parseDate(a.LastUsed), parseDate(b.LastUsed))
    IN IF dateDiff.nan \/ dateDiff.v # 0 THEN dateDiff
       ELSE Num(localeCompare(a.Item, b.Item))

\* ECMAScript SortCompare: a NaN result of the comparison function counts as +0
SortCompare(a, b) ==
    LET v == compareItems(a, b)
    IN IF v.nan THEN 0 ELSE IF v.v < 0 THEN -1 ELSE IF v.v > 0 THEN 1 ELSE 0

\* ECMAScript's "consistent comparison function", for the values arr[1..n]
\* with cmp[i, j] = SortCompare(arr[i], arr[j]): a =CF a, antisymmetry, and
\* transitivity of =CF, <CF and >CF (all three follow, under antisymmetry,
\* from the transitivity of "not after" stated here)
ConsistentComparator(cmp, n) ==
    /\ \A i \in 1..n : cmp[i, i] = 0
    /\ \A i, j \in 1..n : cmp[i, j] = -cmp[j, i]
    /\ \A i, j, k \in 1..n : (cmp[i, j] <= 0 /\ cmp[j, k] <= 0) => cmp[i, k] <= 0

\* the orderings of a set of positions
RECURSIVE Orderings(_)
Orderings(S) ==
    IF S = {} THEN {<<>>}
    ELSE UNION {{<<x>> \o rest : rest \in Orderings(S \ {x})} : x \in S}

\* Array.prototype.sort: the arrays a call can return.  With a consistent
\* comparison function the result is the stable sorted order, in which
\* arr[i] comes after the elements that compare before it and the equal
\* ones that precede it in arr; otherwise ECMAScript leaves the order
\* implementation-defined: any permutation.
ArraySort(arr) ==
    LET n == Len(arr)
        cmp == [i \in 1..n, j \in 1..n |-> SortCompare(arr[i], arr[j])]
        Before(j, i) == cmp[j, i] < 0 \/ (cmp[j, i] = 0 /\ j < i)
        rank == [i \in 1..n |-> 1 + Cardinality({j \in 1..n : Before(j, i)})]
    IN IF ConsistentComparator(cmp, n)
       THEN {[k \in 1..n |-> arr[CHOOSE i \in 1..n : rank[i] = k]]}
       ELSE {[k \in 1..n |-> arr[f[k]]] : f \in Orderings(1..n)}

\* excludeItems.map(item => item.Item || item.name || item)
ExcludeNames(excludeItems) == {excludeItems[i].Item : i \in 1..Len(excludeItems)}

\* getAvailableItems with the grocery test of the filter left out
getAvailableItems_NoGroceryFilter(catalog, grocery, excludeItems) ==
    LET excludeNames == ExcludeNames(excludeItems)
        filteredItems == SelectSeq(catalog, LAMBDA item : item.Item \notin excludeNames)
    IN ArraySort(filteredItems)

\* getAvailableItems on this.items = catalog, this.groceryList = grocery:
\* the set of arrays the call can return
getAvailableItems(catalog, grocery, excludeItems) ==
    LET excludeNames == ExcludeNames(excludeItems)
        filteredItems == SelectSeq(catalog, LAMBDA item :
                              /\ item.Item \notin grocery
                              /\ item.Item \notin excludeNames)
    IN ArraySort(filteredItems)

(***************************************************************************)
(* MealSelector: findSingleItemSolution, findGreedySolution,               *)
(* findOptimalItemCombination, generateSingleMeal.  null is the empty      *)
(* sequence, a returned object the one-element sequence holding it.        *)
(***************************************************************************)
MaxMealItems == 4   \* "Safety check - max 4 items"

\* findSingleItemSolution scanning from the end of the list
findSingleItemSolution_LastMatch(requiredCategories, availableItems) ==
    LET hits == {i \in 1..Len(availableItems) :
                    categoriesMatch(getItemCategories(availableItems[i]),
                                    requiredCategories)}
    IN IF hits = {} THEN <<>>
       ELSE <<availableItems[CHOOSE i \in hits : \A j \in hits : i >= j]>>

\* the first item of availableItems whose categories match exactly, or null
findSingleItemSolution(requiredCategories, availableItems) ==
    LET hits == {i \in 1..Len(availableItems) :
                    categoriesMatch(getItemCategories(availableItems[i]),
                                    requiredCategories)}
    IN IF hits = {} THEN <<>>
       ELSE <<availableItems[CHOOSE i \in hits : \A j \in hits : i <= j]>>

\* the tests of the inner for loop of findGreedySolution on one item
hasConflict(item, coveredCategories) ==
    \E cat \in Range(getItemCategories(item)) : cat \in coveredCategories

hasExtra(item, requiredCategories) ==
    \E cat \in Range(getItemCategories(item)) : ~Includes(requiredCategories, cat)

newCoverage(item, requiredCategories, coveredCategories) ==
    Cardinality({cat \in Range(getItemCategories(item)) :
                    Includes(requiredCategories, cat) /\ cat \notin coveredCategories})

\* GreedyViable with the test newCoverage > 0 left out
GreedyViable_NoNewCoverageTest(item, requiredCategories, coveredCategories) ==
    /\ ~hasConflict(item, coveredCategories)
    /\ ~hasExtra(item, requiredCategories)

\* GreedyViable with the test for extra categories left out
GreedyViable_NoExtraTest(item, requiredCategories, coveredCategories) ==
    /\ ~hasConflict(item, coveredCategories)
    /\ newCoverage(item, requiredCategories, coveredCategories) > 0

GreedyViable(item, requiredCategories, coveredCategories) ==
    /\ ~hasConflict(item, coveredCategories)
    /\ ~hasExtra(item, requiredCategories)
    /\ newCoverage(item, requiredCategories, coveredCategories) > 0

\* the while loop of findGreedySolution, from the state of its locals
RECURSIVE GreedyLoop(_, _, _, _)
GreedyLoop(requiredCategories, selectedItems, coveredCategories, remainingItems) ==
    IF ~(Cardinality(coveredCategories) < Len(requiredCategories)
         /\ Len(remainingItems) > 0)
    THEN selectedItems
    ELSE LET viable == {i \in 1..Len(remainingItems) :
                           GreedyViable(remainingItems[i], requiredCategories,
                                        coveredCategories)}
         IN IF viable = {} THEN selectedItems        \* "No valid item found": break
            ELSE LET selectedIndex == CHOOSE i \in viable : \A j \in viable : i <= j
                     selectedItem == remainingItems[selectedIndex]
                     selected2 == Append(selectedItems, selectedItem)
                     covered2 == coveredCategories
                                   \cup Range(getItemCategories(selectedItem))
                     remaining2 == RemoveAt(remainingItems, selectedIndex)
                 IN IF Len(selected2) >= MaxMealItems THEN selected2
                    ELSE GreedyLoop(requiredCategories, selected2, covered2, remaining2)

\* returns selectedItems whether or not every category was covered
findGreedySolution(requiredCategories, availableItems) ==
    GreedyLoop(requiredCategories, <<>>, {}, availableItems)

findOptimalItemCombination(requiredCategories, availableItems) ==
    LET singleItemSolution == findSingleItemSolution(requiredCategories, availableItems)
    IN IF singleItemSolution # <<>> THEN singleItemSolution
       ELSE findGreedySolution(requiredCategories, availableItems)

\* generateSingleMeal once getAvailableItems has returned availableItems
SingleMealFrom(scheduledMeal, availableItems) ==
    LET requiredCategories == getRequiredCategories(scheduledMeal)
        selectedItems == findOptimalItemCombination(requiredCategories, availableItems)
    IN IF Len(requiredCategories) = 0 THEN <<>>
       ELSE IF Len(selectedItems) = 0 THEN <<>>
       ELSE <<[name |-> scheduledMeal.Name, time |-> scheduledMeal.Time,
               items |-> selectedItems, requiredCategories |-> requiredCategories]>>

\* generateSingleMeal on this.items = catalog, this.groceryList = grocery:
\* the set of results the call can return (null is <<>>)
generateSingleMeal(catalog, grocery, scheduledMeal, usedItems) ==
    {SingleMealFrom(scheduledMeal, availableItems) :
        availableItems \in getAvailableItems(catalog, grocery, usedItems)}

\* the other items of the meal are not subtracted
neededCategories_NoSubtraction(existingMeal, itemIndexToReplace) ==
    getItemCategories(existingMeal.items[itemIndexToReplace])

\* neededCategories of generateReplacement
neededCategories(existingMeal, itemIndexToReplace) ==
    LET itemToReplace == existingMeal.items[itemIndexToReplace]
        otherItems == RemoveAt(existingMeal.items, itemIndexToReplace)
        replacedCategories == getItemCategories(itemToReplace)
        coveredByOthers == UNION {Range(getItemCategories(otherItems[i])) :
                                     i \in 1..Len(otherItems)}
    IN SelectSeq(replacedCategories, LAMBDA cat : cat \notin coveredByOthers)

\* generateReplacement on this.items = catalog, this.groceryList = grocery:
\* the set of arrays the call can return once neededCategories is computed
generateReplacement(catalog, grocery, existingMeal, itemIndexToReplace) ==
    LET needed == neededCategories(existingMeal, itemIndexToReplace)
        itemToReplace == existingMeal.items[itemIndexToReplace]
        otherItems == RemoveAt(existingMeal.items, itemIndexToReplace)
    IN IF Len(needed) = 0 THEN {<<>>}
       ELSE {findOptimalItemCombination(needed, availableItems) :
                availableItems \in
                    getAvailableItems(catalog, grocery, <<itemToReplace>> \o otherItems)}

(***************************************************************************)
(* Input sets.                                                             *)
(***************************************************************************)
IdleCall == [fn |-> "idle"]
IdleGen == [pc |-> "idle", slot |-> 0, schedule |-> <<>>,
            generatedMeals |-> <<>>, usedItems |-> <<>>]
\* the app as constructed: this.meals = [], this.currentMealIndex = 0 (the
\* model counts meals and items from 1), no modal; pc "off" is a page on
\* which nobody has signed in
NoModal == <<>>
IdleApp == [pc |-> "off", meals |-> <<>>, currentMealIndex |-> 1,
            modalContext |-> NoModal, ops |-> 0, maxOps |-> 0]

\* an invocation of an async handler of the page: where it is (pc), who
\* awaits it (ret), and the locals of handleNewDay and generateMealsForToday
\* it runs; pc "none" is no invocation.  For a click, mealIndex is the
\* current meal and timestamp the time of the click; before is the current
\* sheet and the items sheet when the operation started:
\* handleNewDay, generateMealsForToday called by loadMeals, or the click;
\* data is the rows saveCurrentMeals has prepared for writeRange.
IdleTask == [pc |-> "none", ret |-> "", currentMeals |-> <<>>, slot |-> 0,
             schedule |-> <<>>, generatedMeals |-> <<>>, usedItems |-> <<>>,
             toStamp |-> <<>>, timestamp |-> NeverCell, mealIndex |-> 0,
             before |-> <<>>, data |-> <<>>]
\* the invocations the model follows: handleSignedInUser, one
\* checkAndHandleNewDay of a window focus event at a time, and two clicks on
\* Complete or Skip
TaskRoles == {"signin", "focus", "click1", "click2"}
NoTasks == [r \in TaskRoles |-> IdleTask]

\* the page as loaded: no overlay, no card, Complete and Skip enabled
IdleUi == [isLoading |-> FALSE, screen |-> "none", buttonsDisabled |-> FALSE]

\* GoogleSheetsAPI as constructed (accessToken, silentAuthInterval and
\* tokenExpiryTime null, written 0), the interval timers of the window (none),
\* the token kept in localStorage (none), the stay logged in preference (its
\* default), the silent token request in flight (none), tokens issued (none)
IdleAuth == [isSignedIn |-> FALSE, accessToken |-> 0, silentAuthInterval |-> 0,
             tokenExpiryTime |-> 0, timers |-> {}, nextTimer |-> 1,
             storedToken |-> 0, storedExpiry |-> 0, signIns |-> 0,
             stayLoggedIn |-> TRUE, pending |-> FALSE, tokens |-> 0]

\* no store call has failed and the window has had no focus event
IdleEnv == [failures |-> 0, focusEvents |-> 0, maxFailures |-> 0, maxFocus |-> 0]

\* a page on which nobody has signed in, over a store with no history
IdlePage ==
    /\ sheetHistory = <<>>
    /\ tasks = NoTasks
    /\ ui = IdleUi
    /\ auth = IdleAuth
    /\ env = IdleEnv

\* the catalog of n rows with names nm, categories ct and Last Used cells lu
Catalog(n, nm, ct, lu) == [i \in 1..n |-> ItemRow(nm[i], ct[i], lu[i])]

\* the ways to name n rows with distinct names of nameSet
Namings(n, nameSet) ==
    {f \in [1..n -> nameSet] : \A i, j \in 1..n : i # j => f[i] # f[j]}

PoolNames == {Names[i] : i \in 1..MaxPoolItems}
PoolCategoryChoices == {{"Carb"}, {"Protein"}}
PoolLastUsedChoices == {EmptyCell, NeverCell, IsoCell(1), MdyCell(2)}
PoolGroceryLists == {{}, {Names[1]}}
PoolSlots == {SlotRow("Lunch", cats) : cats \in {{}, {"Carb"}, {"Carb", "Protein"}}}

\* exclusion lists handed to the generator: nothing, or the first row
ExcludeLists(catalog) == {<<>>} \cup {<<catalog[i]>> : i \in 1..Len(catalog)}
UsedLists(catalog) == {<<>>} \cup (IF catalog = <<>> THEN {} ELSE {<<catalog[1]>>})

\* meals of one or two distinct catalog items, as a day's plan holds them
MealsOf(catalog) ==
    {[name |-> "Lunch", time |-> "12:00 PM", items |-> <<catalog[i]>>,
      requiredCategories |-> getItemCategories(catalog[i])] : i \in 1..Len(catalog)}
    \cup
    {[name |-> "Lunch", time |-> "12:00 PM", items |-> <<catalog[p[1]], catalog[p[2]]>>,
      requiredCategories |-> <<"Carb", "Protein">>] :
        p \in {q \in (1..Len(catalog)) \X (1..Len(catalog)) : q[1] < q[2]}}

(***************************************************************************)
(* SpecPool: one direct call of getAvailableItems, generateSingleMeal or   *)
(* generateReplacement on a loaded catalog and grocery list.               *)
(***************************************************************************)
InitPool ==
    /\ \E n \in 0..MaxPoolItems :
       \E nm \in Namings(n, PoolNames), ct \in [1..n -> PoolCategoryChoices],
          lu \in [1..n -> PoolLastUsedChoices] :
          items = Catalog(n, nm, ct, lu)
    /\ groceryList \in PoolGroceryLists
    /\ sheetItems = items
    /\ sheetGrocery = groceryList
    /\ sheetSchedule = <<>>
    /\ sheetCurrent = <<>>
    /\ schedule = <<>>
    /\ currentMeals = <<>>
    /\ gen = IdleGen
    /\ now = 0
    /\ today = 1
    /\ call = IdleCall
    /\ app = IdleApp
    /\ IdlePage

CallGetAvailableItems ==
    /\ call = IdleCall
    /\ \E excludeItems \in ExcludeLists(items) :
       \E result \in getAvailableItems(items, groceryList, excludeItems) :
          call' = [fn |-> "getAvailableItems", excludeItems |-> excludeItems,
                   result |-> result]
    /\ UNCHANGED <<storeVars, generatorVars, gen, now, today, app, pageVars>>

CallGenerateSingleMeal ==
    /\ call = IdleCall
    /\ \E scheduledMeal \in PoolSlots, usedItems \in UsedLists(items) :
       \E result \in generateSingleMeal(items, groceryList, scheduledMeal, usedItems) :
          call' = [fn |-> "generateSingleMeal", scheduledMeal |-> scheduledMeal,
                   usedItems |-> usedItems, result |-> result]
    /\ UNCHANGED <<storeVars, generatorVars, gen, now, today, app, pageVars>>

CallGenerateReplacement ==
    /\ call = IdleCall
    /\ \E existingMeal \in MealsOf(items) :
       \E itemIndexToReplace \in 1..Len(existingMeal.items) :
       \E result \in generateReplacement(items, groceryList, existingMeal,
                                         itemIndexToReplace) :
          call' = [fn |-> "generateReplacement", existingMeal |-> existingMeal,
                   itemIndexToReplace |-> itemIndexToReplace, result |-> result]
    /\ UNCHANGED <<storeVars, generatorVars, gen, now, today, app, pageVars>>

NextPool ==
    \/ CallGetAvailableItems
    \/ CallGenerateSingleMeal
    \/ CallGenerateReplacement

SpecPool == InitPool /\ [][NextPool]_vars

(***************************************************************************)
(* Vocabulary of the properties, stated on the sheets' cells rather than   *)
(* through the generator's own methods.                                    *)
(***************************************************************************)
CatsOf(row) == {tag \in TagSet : row[tag] = "y"}
UnionCats(arr) == UNION {CatsOf(arr[i]) : i \in 1..Len(arr)}
PairwiseDisjoint(arr) ==
    \A i, j \in 1..Len(arr) : i # j => CatsOf(arr[i]) \cap CatsOf(arr[j]) = {}
ItemNames(arr) == {arr[i].Item : i \in 1..Len(arr)}

\* the same rows in every row order
RowOrders(arr) ==
    LET n == Len(arr)
        idx == {f \in [1..n -> 1..n] : \A i, j \in 1..n : i # j => f[i] # f[j]}
    IN {[k \in 1..n |-> arr[f[k]]] : f \in idx}

\* a real date: an ISO timestamp or an MM/DD/YYYY date after the epoch
IsRealDate(cell) == cell.fmt \in {"iso", "mdy"} /\ cell.t > 0
\* Last Used as the specification reads it: 'never', empty and unparseable
\* cells are epoch-zero
LastUsedKey(cell) == IF cell.fmt \in {"iso", "mdy"} THEN cell.t ELSE 0

(***************************************************************************)
(* Properties checked under SpecPool.                                      *)
(***************************************************************************)

\* C1 (cover-exactness): whenever generateSingleMeal returns a meal, the
\* union of the categories of its items equals the slot's required set and
\* no two of its items share a category.
C1_CoverExactness ==
    (call.fn = "generateSingleMeal" /\ call.result # <<>>) =>
        /\ UnionCats(call.result[1].items) = CatsOf(call.scheduledMeal)
        /\ PairwiseDisjoint(call.result[1].items)

\* the non-excluded items whose categories equal the slot's required set
ExactCandidates ==
    {row \in Range(items) :
        /\ row.Item \notin groceryList
        /\ row.Item \notin ItemNames(call.usedItems)
        /\ CatsOf(row) = CatsOf(call.scheduledMeal)}

\* C4 (oldest-first preference): when two or more non-excluded items match
\* the slot's required categories exactly, generateSingleMeal returns the
\* one-item meal of a candidate than which no candidate has an earlier
\* Last Used, 'never', empty and unparseable counting as earlier than every
\* real date.
C4_OldestFirst ==
    (call.fn = "generateSingleMeal" /\ Cardinality(ExactCandidates) >= 2) =>
        /\ call.result # <<>>
        /\ Len(call.result[1].items) = 1
        /\ call.result[1].items[1] \in ExactCandidates
        /\ \A row \in ExactCandidates :
              LastUsedKey(row.LastUsed) >= LastUsedKey(call.result[1].items[1].LastUsed)

\* C6 (determinism): a second run on the same catalog contents, in any row
\* order, with the same grocery list, exclusion list and slot, returns what
\* the first run returned.
C6_Determinism ==
    /\ call.fn = "getAvailableItems" =>
          \A catalog2 \in RowOrders(items) :
              getAvailableItems(catalog2, groceryList, call.excludeItems) = {call.result}
    /\ call.fn = "generateSingleMeal" =>
          \A catalog2 \in RowOrders(items) :
              generateSingleMeal(catalog2, groceryList, call.scheduledMeal,
                                 call.usedItems) = {call.result}

\* C7 (never/unparseable is oldest): in the list getAvailableItems returns,
\* every item whose Last Used is 'never', empty or unparseable precedes
\* every item whose Last Used is a valid date after the epoch.
C7_NeverIsOldest ==
    call.fn = "getAvailableItems" =>
        \A i, j \in 1..Len(call.result) :
            (~IsRealDate(call.result[i].LastUsed) /\ IsRealDate(call.result[j].LastUsed))
                => i < j

\* C8 (total order with name tie-break): no two distinct items of the
\* catalog compare equal, and the list getAvailableItems returns ascends
\* strictly by Last Used, then by item name.
C8_TotalOrder ==
    call.fn = "getAvailableItems" =>
        /\ \A a, b \in Range(items) : a # b => SortCompare(a, b) # 0
        /\ \A i, j \in 1..Len(call.result) : i < j =>
              \/ LastUsedKey(call.result[i].LastUsed) < LastUsedKey(call.result[j].LastUsed)
              \/ /\ LastUsedKey(call.result[i].LastUsed) = LastUsedKey(call.result[j].LastUsed)
                 /\ NameRank(call.result[i].Item) < NameRank(call.result[j].Item)

\* C9 (exclusion): the list getAvailableItems returns holds no item named in
\* the grocery list or in the exclusion list and holds every other catalog
\* item exactly once; no generated meal and no replacement holds a
\* grocery-listed item.
C9_Exclusion ==
    /\ call.fn = "getAvailableItems" =>
          LET excluded == groceryList \cup ItemNames(call.excludeItems)
          IN /\ ItemNames(call.result) \cap excluded = {}
             /\ \A row \in Range(items) : row.Item \notin excluded =>
                   Cardinality({i \in 1..Len(call.result) : call.result[i] = row}) = 1
             /\ Range(call.result) \subseteq Range(items)
    /\ (call.fn = "generateSingleMeal" /\ call.result # <<>>) =>
          ItemNames(call.result[1].items) \cap groceryList = {}
    /\ call.fn = "generateReplacement" =>
          ItemNames(call.result) \cap groceryList = {}

\* C9's case: a catalog with a grocery-listed item and an excluded item, of
\* which getAvailableItems still returns something
C9_Witness ==
    /\ call.fn = "getAvailableItems"
    /\ ItemNames(items) \cap groceryList # {}
    /\ call.excludeItems # <<>>
    /\ ItemNames(call.excludeItems) \cap groceryList = {}
    /\ call.result # <<>>

(***************************************************************************)
(* SpecSelector: one direct call of findOptimalItemCombination.  The       *)
(* catalog holds items a, b, c, ... with Last Used ascending in that       *)
(* order, each with at most two categories, and nothing is excluded, so    *)
(* the catalog is the availability list the call is handed.                *)
(***************************************************************************)
SelectorCategoryChoices == {cats \in SUBSET TagSet : Cardinality(cats) <= 2}

\* the availability list of n items with categories ct[1..n]
AvailableList(n, ct) == [i \in 1..n |-> ItemRow(Names[i], ct[i], IsoCell(i))]

RequiredChoices == {SubSeq(Tags, 1, n) : n \in 1..Len(Tags)}

InitSelector ==
    /\ \E n \in 0..MaxAvailable :
       \E ct \in [1..n -> SelectorCategoryChoices] :
          items = AvailableList(n, ct)
    /\ groceryList = {}
    /\ sheetItems = items
    /\ sheetGrocery = {}
    /\ sheetSchedule = <<>>
    /\ sheetCurrent = <<>>
    /\ schedule = <<>>
    /\ currentMeals = <<>>
    /\ gen = IdleGen
    /\ now = 0
    /\ today = 1
    /\ call = IdleCall
    /\ app = IdleApp
    /\ IdlePage

CallFindOptimalItemCombination ==
    /\ call = IdleCall
    /\ \E requiredCategories \in RequiredChoices :
          call' = [fn |-> "findOptimalItemCombination",
                   requiredCategories |-> requiredCategories,
                   availableItems |-> items,
                   result |-> findOptimalItemCombination(requiredCategories, items),
                   greedyUsed |-> findSingleItemSolution(requiredCategories,
                                                         items) = <<>>]
    /\ UNCHANGED <<storeVars, generatorVars, gen, now, today, app, pageVars>>

NextSelector == CallFindOptimalItemCombination

SpecSelector == InitSelector /\ [][NextSelector]_vars

(***************************************************************************)
(* Properties checked under SpecSelector.                                  *)
(***************************************************************************)

\* the items at the positions S of the availability list are pairwise
\* category-disjoint and their categories are exactly the required set
ExactCoverAt(S) ==
    /\ UNION {CatsOf(call.availableItems[i]) : i \in S} = Range(call.requiredCategories)
    /\ \A i, j \in S : i # j =>
          CatsOf(call.availableItems[i]) \cap CatsOf(call.availableItems[j]) = {}

\* C2 (minimality): when findOptimalItemCombination returns an exact cover,
\* no exact cover with fewer items exists among the available items.
C2_Minimality ==
    (/\ call.fn = "findOptimalItemCombination"
     /\ call.result # <<>>
     /\ UnionCats(call.result) = Range(call.requiredCategories)
     /\ PairwiseDisjoint(call.result)) =>
        \A S \in SUBSET (1..Len(call.availableItems)) :
            (S # {} /\ Cardinality(S) < Len(call.result)) => ~ExactCoverAt(S)

\* the positions of the available items whose category set equals the
\* required set
ExactPositions ==
    {i \in 1..Len(call.availableItems) :
        CatsOf(call.availableItems[i]) = Range(call.requiredCategories)}

\* C3 (single-item preference): when some available item has exactly the
\* required categories, findOptimalItemCombination returns the first such
\* item alone, and the greedy phase is not used.
C3_SingleItemPreference ==
    (call.fn = "findOptimalItemCombination" /\ ExactPositions # {}) =>
        /\ call.result =
              <<call.availableItems[CHOOSE i \in ExactPositions :
                                       \A j \in ExactPositions : i <= j]>>
        /\ ~call.greedyUsed

\* C3's case: two exact matches, the first of them not at the head of the
\* list, and the call has returned
C3_Witness ==
    /\ call.fn = "findOptimalItemCombination"
    /\ Cardinality(ExactPositions) >= 2
    /\ 1 \notin ExactPositions
    /\ Len(call.result) = 1

\* an item the greedy step may append once the categories covered are given
Eligible(row, covered) ==
    /\ CatsOf(row) \cap covered = {}
    /\ CatsOf(row) \subseteq Range(call.requiredCategories)
    /\ CatsOf(row) # {}

PositionOf(row) == CHOOSE i \in 1..Len(call.availableItems) : call.availableItems[i] = row

\* the example of the specification: required {Carb, Protein} and
\* [X(Carb, Veggie), Y(Carb), Z(Protein)]
GreedyExample ==
    /\ call.requiredCategories = <<"Carb", "Protein">>
    /\ Len(call.availableItems) = 3
    /\ CatsOf(call.availableItems[1]) = {"Carb", "Veggie"}
    /\ CatsOf(call.availableItems[2]) = {"Carb"}
    /\ CatsOf(call.availableItems[3]) = {"Protein"}

\* C5 (greedy step rule): the k-th item the greedy phase returns is the
\* first available item, not already taken, that has no category already
\* covered, no category outside the required set and at least one category;
\* so the items returned are pairwise category-disjoint and within the
\* required set, and the example yields [Y, Z].
C5_GreedyStepRule ==
    (call.fn = "findOptimalItemCombination" /\ call.greedyUsed) =>
        /\ \A k \in 1..Len(call.result) :
              LET taken == SubSeq(call.result, 1, k - 1)
                  covered == UnionCats(taken)
              IN /\ call.result[k] \in Range(call.availableItems)
                 /\ call.result[k] \notin Range(taken)
                 /\ Eligible(call.result[k], covered)
                 /\ \A j \in 1..(PositionOf(call.result[k]) - 1) :
                       call.availableItems[j] \notin Range(taken) =>
                           ~Eligible(call.availableItems[j], covered)
        /\ PairwiseDisjoint(call.result)
        /\ UnionCats(call.result) \subseteq Range(call.requiredCategories)
        /\ GreedyExample =>
              call.result = <<call.availableItems[2], call.availableItems[3]>>

\* C5's case: the greedy phase has run on the example
C5_Witness ==
    /\ call.fn = "findOptimalItemCombination"
    /\ call.greedyUsed
    /\ GreedyExample
    /\ Len(call.result) = 2

getTodayString == MdyCell(today)

\* updateLastUsed(itemName, date) on the rows of the items sheet: the first
\* row with that name gets the date
updateLastUsed(rows, itemName, date) ==
    LET hits == {i \in 1..Len(rows) : rows[i].Item = itemName}
    IN IF hits = {} THEN rows
       ELSE LET first == CHOOSE i \in hits : \A j \in hits : i <= j
            IN [rows EXCEPT ![first].LastUsed = date]

\* only the first item of the meal is written
updateLastUsedAll_FirstOnly(rows, mealItems, timestamp) ==
    IF mealItems = <<>> THEN rows
    ELSE updateLastUsed(rows, Head(mealItems).Item, timestamp)

\* the for loop over meal.items calling updateLastUsed with one timestamp
RECURSIVE updateLastUsedAll(_, _, _)
updateLastUsedAll(rows, mealItems, timestamp) ==
    IF mealItems = <<>> THEN rows
    ELSE updateLastUsedAll(updateLastUsed(rows, Head(mealItems).Item, timestamp),
                           Tail(mealItems), timestamp)

\* the rows saveCurrentMeals(meals) writes to the current sheet
CurrentRows(meals) ==
    [m \in 1..Len(meals) |->
        [date |-> getTodayString,
         mealName |-> meals[m].name,
         status |-> IF "status" \in DOMAIN meals[m] /\ meals[m].status # ""
                    THEN meals[m].status ELSE "pending",
         itemNames |-> [i \in 1..MaxMealItems |->
                           IF i <= Len(meals[m].items) THEN meals[m].items[i].Item
                           ELSE ""]]]

(***************************************************************************)
(* generateMealsForToday.  The calls of the store are awaited one after    *)
(* the other; a step of the model is the stretch from the start to the     *)
(* loop, one iteration of the loop, or the final save.                     *)
(***************************************************************************)
\* usedItems left as it was: the meal's items are not recorded
UsedAfter_NotTracked(usedItems, meal) == usedItems

\* usedItems.push(...meal.items)
UsedAfter(usedItems, meal) == usedItems \o meal.items

\* await this.loadData(); const generatedMeals = []; const usedItems = []
GenStart ==
    /\ gen.pc \in {"idle", "done"}
    /\ now <= MaxClock
    /\ items' = sheetItems
    /\ schedule' = sheetSchedule
    /\ groceryList' = sheetGrocery
    /\ gen' = [pc |-> "loop", slot |-> 1, schedule |-> sheetSchedule,
               generatedMeals |-> <<>>, usedItems |-> <<>>]
    /\ UNCHANGED <<storeVars, currentMeals, now, today, call, app, pageVars>>

\* one iteration of for (const scheduledMeal of this.schedule) in which
\* generateSingleMeal returns a meal
GenSlotMeal ==
    /\ gen.pc = "loop"
    /\ gen.slot <= Len(gen.schedule)
    /\ \E result \in generateSingleMeal(items, groceryList, gen.schedule[gen.slot],
                                        gen.usedItems) :
          /\ result # <<>>
          /\ LET meal == result[1]
                 timestamp == IsoCell(now)
             IN /\ sheetItems' = updateLastUsedAll(sheetItems, meal.items, timestamp)
                /\ gen' = [gen EXCEPT !.slot = @ + 1,
                                      !.generatedMeals = Append(@, meal),
                                      !.usedItems = UsedAfter(@, meal)]
    /\ items' = sheetItems'                 \* await this.loadData()
    /\ schedule' = sheetSchedule
    /\ groceryList' = sheetGrocery
    /\ now' = now + 1
    /\ UNCHANGED <<sheetSchedule, sheetGrocery, sheetCurrent, currentMeals, today, call,
                   app, pageVars>>

\* a null from generateSingleMeal ends the loop: the slots after it are not
\* visited
GenSlotNone_Abort ==
    /\ gen.pc = "loop"
    /\ gen.slot <= Len(gen.schedule)
    /\ <<>> \in generateSingleMeal(items, groceryList, gen.schedule[gen.slot],
                                   gen.usedItems)
    /\ gen' = [gen EXCEPT !.slot = Len(gen.schedule) + 1]
    /\ UNCHANGED <<storeVars, generatorVars, now, today, call, app, pageVars>>

\* one iteration in which generateSingleMeal returns null
GenSlotNone ==
    /\ gen.pc = "loop"
    /\ gen.slot <= Len(gen.schedule)
    /\ <<>> \in generateSingleMeal(items, groceryList, gen.schedule[gen.slot],
                                   gen.usedItems)
    /\ gen' = [gen EXCEPT !.slot = @ + 1]
    /\ UNCHANGED <<storeVars, generatorVars, now, today, call, app, pageVars>>

\* await sheetsAPI.saveCurrentMeals(generatedMeals); this.currentMeals = ...
GenSave ==
    /\ gen.pc = "loop"
    /\ gen.slot > Len(gen.schedule)
    /\ sheetCurrent' = CurrentRows(gen.generatedMeals)
    /\ currentMeals' = gen.generatedMeals
    /\ gen' = [gen EXCEPT !.pc = "done"]
    /\ UNCHANGED <<sheetItems, sheetSchedule, sheetGrocery, items, schedule,
                   groceryList, now, today, call, app, pageVars>>

(***************************************************************************)
(* Spec: the store holds a catalog, a schedule and a grocery list; the     *)
(* generator is freshly constructed.  Every item starts with the Last Used *)
(* that addItem writes, 'never'; generation then writes ISO timestamps.    *)
(***************************************************************************)
DayCategoryChoices == {{"Carb"}, {"Protein"}, {"Carb", "Protein"}}
DayLastUsedChoices == {NeverCell}
DayRequiredChoices == {{}, {"Carb"}, {"Carb", "Protein"}}
DayGroceryLists == {{}, {Names[1]}}
SlotNames == <<"Breakfast", "Lunch", "Dinner", "Snack">>

Init ==
    /\ \E n \in 0..MaxDayItems :
       \E ct \in [1..n -> DayCategoryChoices], lu \in [1..n -> DayLastUsedChoices] :
          sheetItems = [i \in 1..n |-> ItemRow(Names[i], ct[i], lu[i])]
    /\ \E n \in 0..MaxSlots :
       \E rq \in [1..n -> DayRequiredChoices] :
          sheetSchedule = [i \in 1..n |-> SlotRow(SlotNames[i], rq[i])]
    /\ sheetGrocery \in DayGroceryLists
    /\ sheetCurrent = <<>>
    /\ items = <<>>
    /\ schedule = <<>>
    /\ groceryList = {}
    /\ currentMeals = <<>>
    /\ gen = IdleGen
    /\ now = 2
    /\ today = 1
    /\ call = IdleCall
    /\ app = IdleApp
    /\ IdlePage

Next ==
    \/ GenStart
    \/ GenSlotMeal
    \/ GenSlotNone
    \/ GenSave

Spec == Init /\ [][Next]_vars

(***************************************************************************)
(* Properties checked under Spec.                                          *)
(***************************************************************************)

\* the example of the specification: every slot requires exactly {Carb} and
\* exactly one item of the catalog has the category Carb, an item that is
\* not on the grocery list
TwoCarbSlotsOneCarbItem ==
    /\ Len(gen.schedule) = 2
    /\ \A i \in 1..2 : CatsOf(gen.schedule[i]) = {"Carb"}
    /\ Cardinality({i \in 1..Len(sheetItems) : "Carb" \in CatsOf(sheetItems[i])}) = 1
    /\ \E i \in 1..Len(sheetItems) :
          CatsOf(sheetItems[i]) = {"Carb"} /\ sheetItems[i].Item \notin sheetGrocery

\* C10 (cross-slot exclusion): at every point of a run of
\* generateMealsForToday no item name is in two different meals generated
\* so far; and when the run ends on two slots requiring {Carb} with a single
\* Carb item, the plan is one meal, the first slot's, holding that item.
C10_CrossSlotExclusion ==
    /\ \A m1, m2 \in 1..Len(gen.generatedMeals) : m1 # m2 =>
          ItemNames(gen.generatedMeals[m1].items)
              \cap ItemNames(gen.generatedMeals[m2].items) = {}
    /\ (gen.pc = "done" /\ TwoCarbSlotsOneCarbItem) =>
          /\ Len(gen.generatedMeals) = 1
          /\ gen.generatedMeals[1].name = gen.schedule[1].Name
          /\ Len(gen.generatedMeals[1].items) = 1
          /\ "Carb" \in CatsOf(gen.generatedMeals[1].items[1])

\* C10's case: a finished run on the example
C10_Witness ==
    /\ gen.pc = "done"
    /\ TwoCarbSlotsOneCarbItem
    /\ Len(gen.generatedMeals) = 1

\* the slot the loop is at has no required category, or selection returns
\* no item for it whatever order the available items come in
SlotIsBad ==
    LET requiredCategories == getRequiredCategories(gen.schedule[gen.slot])
    IN \/ Len(requiredCategories) = 0
       \/ \A availableItems \in getAvailableItems(items, groceryList, gen.usedItems) :
             findOptimalItemCombination(requiredCategories, availableItems) = <<>>

\* the row of the schedule a meal of the run g was generated for
SlotOf(g, meal) == CHOOSE i \in 1..Len(g.schedule) : g.schedule[i].Name = meal.name

\* the meals of the run g are meals of slots already visited, in the order
\* of the schedule
InScheduleOrder(g) ==
    /\ \A m \in 1..Len(g.generatedMeals) :
          /\ \E i \in 1..Len(g.schedule) : g.schedule[i].Name = g.generatedMeals[m].name
          /\ SlotOf(g, g.generatedMeals[m]) < g.slot
    /\ \A m1, m2 \in 1..Len(g.generatedMeals) : m1 < m2 =>
          SlotOf(g, g.generatedMeals[m1]) < SlotOf(g, g.generatedMeals[m2])

\* a step of the loop of generateMealsForToday, or the save after it
C18_Step ==
    /\ (gen.pc = "loop" /\ gen.slot <= Len(gen.schedule)) =>
          /\ gen'.pc = "loop"
          /\ gen'.schedule = gen.schedule
          /\ gen'.slot = gen.slot + 1
          /\ InScheduleOrder(gen')
          /\ SlotIsBad =>
                /\ gen'.generatedMeals = gen.generatedMeals
                /\ gen'.usedItems = gen.usedItems
                /\ sheetItems' = sheetItems
    /\ (gen.pc = "loop" /\ gen'.pc = "done") =>
          /\ gen.slot = Len(gen.schedule) + 1
          /\ gen'.generatedMeals = gen.generatedMeals
          /\ currentMeals' = gen.generatedMeals

\* C18 (bad slots are skipped, not fatal): generateMealsForToday visits the
\* slots of the schedule one by one in order up to the last; a slot with no
\* required category, or for which selection returns no item, adds no meal
\* and changes neither usedItems nor any row of the items sheet; the run
\* ends only after the last slot and returns the meals in schedule order.
C18_BadSlotsSkipped == [][C18_Step]_vars

\* C18's case: a finished run that skipped the first slot, a slot with
\* required categories, and generated the meal of the second
C18_Witness ==
    /\ gen.pc = "done"
    /\ Len(gen.schedule) = 2
    /\ CatsOf(gen.schedule[1]) # {}
    /\ Len(gen.generatedMeals) = 1
    /\ gen.generatedMeals[1].name = gen.schedule[2].Name

\* the Last Used cell of the row of the items sheet named itemName
LastUsedInStore(itemName) ==
    LET r == CHOOSE i \in 1..Len(sheetItems) : sheetItems[i].Item = itemName
    IN sheetItems[r].LastUsed

\* C19 (touch before next slot): whenever generateMealsForToday is at the
\* top of its loop, about to compute the available items of a slot, the
\* generator's catalog is the items sheet as it is now, and for every meal
\* generated so far the Last Used of each of its items in the sheet is the
\* timestamp taken when that meal was generated (the clock ticks once per
\* generated meal, so the m-th of k meals was stamped k - m + 1 ticks ago).
C19_TouchBeforeNextSlot ==
    gen.pc = "loop" =>
        /\ items = sheetItems
        /\ \A m \in 1..Len(gen.generatedMeals) :
           \A i \in 1..Len(gen.generatedMeals[m].items) :
              /\ gen.generatedMeals[m].items[i].Item \in ItemNames(sheetItems)
              /\ LastUsedInStore(gen.generatedMeals[m].items[i].Item)
                    = IsoCell(now - Len(gen.generatedMeals) + m - 1)

\* C19's case: a meal of two items has been generated and the loop is about
\* to compute the available items of the next slot
C19_Witness ==
    /\ gen.pc = "loop"
    /\ gen.slot <= Len(gen.schedule)
    /\ Len(gen.generatedMeals) >= 1
    /\ Len(gen.generatedMeals[1].items) = 2

(***************************************************************************)
(* MealPlanningApp (the page).  After sign-in handleSignedInUser awaits    *)
(* checkAndHandleNewDay, which on an empty current sheet runs              *)
(* generateMealsForToday, and then loadMeals, which reads the plan back    *)
(* from the current sheet.  The handlers of a swipe and of the category    *)
(* chooser are each one step.  Meals and items are counted from 1.         *)
(***************************************************************************)
MaxAppItems == 3        \* rows of the items sheet in SpecApp
MaxAppSlots == 2        \* rows of the schedule sheet in SpecApp
MaxAppOps == 2          \* swipes and picks after the plan is loaded
MaxCapOps == 4          \* swipes and picks in SpecCap

\* checkIfNeedsNewMeals on the rows of the current sheet
checkIfNeedsNewMeals(rows) ==
    IF Len(rows) = 0 THEN TRUE
    ELSE rows[1].date # getTodayString

\* findMealTime(mealName) on mealGenerator.schedule
findMealTime(sched, mealName) ==
    IF Len(sched) = 0 THEN "Time not set"
    ELSE LET hits == {i \in 1..Len(sched) : sched[i].Name = mealName}
         IN IF hits = {} THEN "Time not found"
            ELSE sched[CHOOSE i \in hits : \A j \in hits : i <= j].Time

\* items.find(item => item.Item === itemName): <<>> is undefined
findItem(catalog, itemName) ==
    LET hits == {i \in 1..Len(catalog) : catalog[i].Item = itemName}
    IN IF hits = {} THEN <<>>
       ELSE <<catalog[CHOOSE i \in hits : \A j \in hits : i <= j]>>

\* extractItemsFromMeal(meal) for a row of the current sheet
RECURSIVE extractItemsFrom(_, _, _)
extractItemsFrom(catalog, itemNames, i) ==
    IF i > Len(itemNames) THEN <<>>
    ELSE LET itemName == itemNames[i]
             itemDetails == findItem(catalog, itemName)
             rest == extractItemsFrom(catalog, itemNames, i + 1)
         IN IF itemName = "" THEN rest
            ELSE IF itemDetails # <<>> THEN <<itemDetails[1]>> \o rest
            ELSE <<ItemRow(itemName, {}, EmptyCell)>> \o rest   \* { Item: itemName }

extractItemsFromMeal(catalog, row) == extractItemsFrom(catalog, row.itemNames, 1)

\* the meals loadMeals builds from the rows of the current sheet
MealsFromRows(catalog, sched, rows) ==
    [m \in 1..Len(rows) |->
        [name |-> rows[m].mealName,
         time |-> findMealTime(sched, rows[m].mealName),
         items |-> extractItemsFromMeal(catalog, rows[m]),
         date |-> rows[m].date,
         status |-> IF rows[m].status # "" THEN rows[m].status ELSE "pending"]]

\* an item as formatMealForDisplay hands it to the click handlers
formatItemForDisplay(item) ==
    [name |-> item.Item, categories |-> getItemCategories(item)]

\* replaceItem: an item of the meal without any category flag is filled in
\* from the catalog (Object.assign)
reEnrich(catalog, item) ==
    IF item.Carb = "" /\ item.Protein = "" /\ item.Fruit = "" /\ item.Veggie = ""
    THEN LET fullItemData == findItem(catalog, item.Item)
         IN IF fullItemData # <<>> THEN fullItemData[1] ELSE item
    ELSE item

\* what generateReplacementItem returns for the array generateReplacement
\* returned: <<array>>, or <<>> for null
generateReplacementItem(replacementItems) ==
    IF Len(replacementItems) > 0 THEN <<replacementItems>>
    ELSE IF Len(replacementItems) = 0 THEN << <<>> >>
    ELSE <<>>

\* splice(itemIndex, 1); splice(itemIndex, 0, ...replacementItems);
\* slice(0, 4) when longer than 4
spliceReplacement(mealItems, itemIndex, replacementItems) ==
    LET removed == RemoveAt(mealItems, itemIndex)
        spliced == SubSeq(removed, 1, itemIndex - 1) \o replacementItems
                       \o SubSeq(removed, itemIndex, Len(removed))
    IN IF Len(spliced) > MaxMealItems THEN SubSeq(spliced, 1, MaxMealItems)
       ELSE spliced

\* the write lands on every meal of the plan
setMealItems_EveryMeal(meals, mealIndex, newItems) ==
    [m \in 1..Len(meals) |-> [meals[m] EXCEPT !.items = newItems]]

\* currentMeal.items = newItems, currentMeal being this.meals[mealIndex]
setMealItems(meals, mealIndex, newItems) ==
    [meals EXCEPT ![mealIndex].items = newItems]

\* getItemsForCategories(categories) on the loaded catalog and grocery list:
\* the set of arrays the call can return
getItemsForCategories(catalog, grocery, categories) ==
    UNION {ArraySort(SelectSeq(availableItems,
                LAMBDA item : \E k \in 1..Len(categories) :
                    Includes(getItemCategories(item), categories[k]))) :
           availableItems \in getAvailableItems(catalog, grocery, <<>>)}

\* the meal on the card
currentMeal == app.meals[app.currentMealIndex]

\* the page is showing a plan and no chooser is open (the chooser covers
\* the card)
CardShown ==
    /\ app.pc = "ready"
    /\ Len(app.meals) > 0
    /\ app.modalContext = NoModal

AppCategoryChoices == {{"Carb"}, {"Protein"}, {"Carb", "Protein"}}
AppRequiredChoices == {{"Carb"}, {"Carb", "Protein"}}
AppGroceryLists == {{}, {Names[1]}}

InitApp ==
    /\ \E n \in 0..MaxAppItems :
       \E ct \in [1..n -> AppCategoryChoices] :
          sheetItems = [i \in 1..n |-> ItemRow(Names[i], ct[i], NeverCell)]
    /\ \E n \in 1..MaxAppSlots :
       \E rq \in [1..n -> AppRequiredChoices] :
          sheetSchedule = [i \in 1..n |-> SlotRow(SlotNames[i], rq[i])]
    /\ sheetGrocery \in AppGroceryLists
    /\ sheetCurrent = <<>>
    /\ items = <<>>
    /\ schedule = <<>>
    /\ groceryList = {}
    /\ currentMeals = <<>>
    /\ gen = IdleGen
    /\ now = 2
    /\ today = 1
    /\ call = IdleCall
    /\ app = [IdleApp EXCEPT !.pc = "init", !.maxOps = MaxAppOps]
    /\ IdlePage

\* checkAndHandleNewDay: the current sheet holds no plan of today, so
\* handleNewDay starts generateMealsForToday
CheckAndHandleNewDay ==
    /\ app.pc = "init"
    /\ gen.pc = "idle"
    /\ checkIfNeedsNewMeals(sheetCurrent)
    /\ GenStart

\* loadMeals once the generation of checkAndHandleNewDay has saved.  When
\* the current sheet is still empty no slot produced a meal, and the
\* generation loadMeals then runs on the same sheets produces none either.
LoadMeals ==
    /\ app.pc = "init"
    /\ gen.pc = "done"
    /\ currentMeals' = sheetCurrent          \* this.getCurrentMeals()
    /\ app' = [app EXCEPT
                  !.pc = "ready",
                  !.meals = IF checkIfNeedsNewMeals(sheetCurrent) THEN <<>>
                            ELSE MealsFromRows(items, schedule, sheetCurrent),
                  !.currentMealIndex = 1]
    /\ UNCHANGED <<storeVars, items, schedule, groceryList, gen, now, today, call, pageVars>>

previousMeal ==
    /\ CardShown
    /\ app.currentMealIndex > 1
    /\ app' = [app EXCEPT !.currentMealIndex = @ - 1]
    /\ UNCHANGED <<storeVars, generatorVars, gen, now, today, call, pageVars>>

nextMeal ==
    /\ CardShown
    /\ app.currentMealIndex < Len(app.meals)
    /\ app' = [app EXCEPT !.currentMealIndex = @ + 1]
    /\ UNCHANGED <<storeVars, generatorVars, gen, now, today, call, pageVars>>

\* replaceItem(itemIndex, addToGrocery), the handler of a swipe on an item
replaceItem ==
    /\ CardShown
    /\ app.ops < app.maxOps
    /\ \E itemIndex \in 1..Len(currentMeal.items), addToGrocery \in BOOLEAN :
       LET itemToReplace == reEnrich(sheetItems, currentMeal.items[itemIndex])
           enriched == [currentMeal EXCEPT !.items[itemIndex] = itemToReplace]
           grocery == IF addToGrocery THEN sheetGrocery \cup {itemToReplace.Item}
                      ELSE sheetGrocery
       IN \E generated \in generateReplacement(sheetItems, grocery, enriched, itemIndex) :
          LET replacementItems == generateReplacementItem(generated)
              shown == IF replacementItems = <<>> THEN "No suitable replacement found"
                       ELSE IF Len(replacementItems[1]) > 0 THEN "Replaced"
                       ELSE "Removed - all categories already covered"
              newItems == IF replacementItems = <<>> THEN enriched.items
                          ELSE IF Len(replacementItems[1]) > 0
                          THEN spliceReplacement(enriched.items, itemIndex,
                                                 replacementItems[1])
                          ELSE RemoveAt(enriched.items, itemIndex)
              meals == setMealItems(app.meals, app.currentMealIndex, newItems)
          IN /\ sheetGrocery' = grocery
             /\ app' = [app EXCEPT !.meals = meals, !.ops = @ + 1]
             /\ sheetCurrent' = IF replacementItems = <<>> THEN sheetCurrent
                                ELSE CurrentRows(meals)
             /\ call' = [fn |-> "replaceItem",
                         mealIndex |-> app.currentMealIndex,
                         itemIndex |-> itemIndex,
                         addToGrocery |-> addToGrocery,
                         mealsBefore |-> app.meals,
                         rowsBefore |-> sheetCurrent,
                         itemsBefore |-> sheetItems,
                         replacementItems |-> replacementItems,
                         shown |-> shown,
                         at |-> now]
    /\ items' = sheetItems                   \* await mealGenerator.loadData()
    /\ schedule' = sheetSchedule
    /\ groceryList' = sheetGrocery'
    /\ UNCHANGED <<sheetItems, sheetSchedule, currentMeals, gen, now, today, pageVars>>

\* openCategoryModal(currentItem, itemIndex, specificCategory): a click on
\* an item's name or on one of its category tags
openCategoryModal ==
    /\ CardShown
    /\ app.ops < app.maxOps
    /\ \E itemIndex \in 1..Len(currentMeal.items) :
       LET currentItem == formatItemForDisplay(currentMeal.items[itemIndex])
       IN \E categoriesToShow \in {currentItem.categories}
                \cup {<<currentItem.categories[k]>> : k \in 1..Len(currentItem.categories)} :
          \E availableItems \in getItemsForCategories(sheetItems, sheetGrocery,
                                                      categoriesToShow) :
             app' = [app EXCEPT !.modalContext =
                        [currentItem |-> currentItem, itemIndex |-> itemIndex,
                         categoriesToShow |-> categoriesToShow,
                         availableItems |-> availableItems]]
    /\ items' = sheetItems                   \* await mealGenerator.loadData()
    /\ schedule' = sheetSchedule
    /\ groceryList' = sheetGrocery
    /\ UNCHANGED <<storeVars, currentMeals, gen, now, today, call, pageVars>>

\* closeCategoryModal(), the chooser is dismissed without a pick
closeCategoryModal ==
    /\ app.modalContext # NoModal
    /\ app' = [app EXCEPT !.modalContext = NoModal]
    /\ UNCHANGED <<storeVars, generatorVars, gen, now, today, call, pageVars>>

\* selectCategoryItem(selectedItem), a click on an item of the chooser
selectCategoryItem ==
    /\ app.modalContext # NoModal
    /\ \E k \in 1..Len(app.modalContext.availableItems) :
       LET selectedItem == app.modalContext.availableItems[k]
           currentItem == app.modalContext.currentItem
           itemIndex == app.modalContext.itemIndex
           same == selectedItem.Item = currentItem.name
           timestamp == IsoCell(now)
           meals == IF same THEN app.meals
                    ELSE setMealItems(app.meals, app.currentMealIndex,
                             [currentMeal.items EXCEPT ![itemIndex] = selectedItem])
       IN /\ app' = [app EXCEPT !.modalContext = NoModal, !.meals = meals,
                                !.ops = IF same THEN @ ELSE @ + 1]
          /\ sheetItems' = IF same THEN sheetItems
                           ELSE updateLastUsed(sheetItems, selectedItem.Item, timestamp)
          /\ sheetCurrent' = IF same THEN sheetCurrent ELSE CurrentRows(meals)
          /\ now' = IF same THEN now ELSE now + 1
          /\ call' = IF same THEN call
                     ELSE [fn |-> "selectCategoryItem",
                           mealIndex |-> app.currentMealIndex,
                           itemIndex |-> itemIndex,
                           selectedItem |-> selectedItem,
                           mealsBefore |-> app.meals,
                           rowsBefore |-> sheetCurrent,
                           itemsBefore |-> sheetItems,
                           timestamp |-> timestamp]
    /\ UNCHANGED <<sheetSchedule, sheetGrocery, generatorVars, gen, today, pageVars>>

NextApp ==
    \/ CheckAndHandleNewDay
    \/ GenSlotMeal
    \/ GenSlotNone
    \/ GenSave
    \/ LoadMeals
    \/ previousMeal
    \/ nextMeal
    \/ replaceItem
    \/ openCategoryModal
    \/ closeCategoryModal
    \/ selectCategoryItem

SpecApp == InitApp /\ [][NextApp]_vars

\* C20 (every selection touches Last Used): while generateMealsForToday runs
\* and until the plan is loaded, every item of a generated meal has in the
\* items sheet an ISO Last Used taken during the run; and when a swipe has put
\* replacement items into a meal, each of them has in the items sheet an ISO
\* Last Used taken no earlier than the swipe.
C20_EverySelectionTouchesLastUsed ==
    /\ (app.pc = "init" /\ gen.pc \in {"loop", "done"}) =>
          \A m \in 1..Len(gen.generatedMeals) :
          \A i \in 1..Len(gen.generatedMeals[m].items) :
             LET lastUsed == LastUsedInStore(gen.generatedMeals[m].items[i].Item)
             IN lastUsed.fmt = "iso" /\ lastUsed.t >= 2
    /\ (call.fn = "replaceItem" /\ call.shown = "Replaced") =>
          \A i \in 1..Len(call.replacementItems[1]) :
             LET lastUsed == LastUsedInStore(call.replacementItems[1][i].Item)
             IN lastUsed.fmt = "iso" /\ lastUsed.t >= call.at

(***************************************************************************)
(* SpecCap: the page on one day whose only slot requires all four          *)
(* categories, with a catalog of an item per category and two items of     *)
(* two categories, all of them used on an earlier day.                     *)
(***************************************************************************)
CapCatalog ==
    <<ItemRow("a", {"Carb"}, IsoCell(1)), ItemRow("b", {"Protein"}, IsoCell(1)),
      ItemRow("c", {"Fruit"}, IsoCell(1)), ItemRow("d", {"Veggie"}, IsoCell(1)),
      ItemRow("e", {"Carb", "Fruit"}, IsoCell(1)),
      ItemRow("f", {"Fruit", "Veggie"}, IsoCell(1))>>

InitCap ==
    /\ sheetItems = CapCatalog
    /\ sheetSchedule = <<SlotRow(SlotNames[1], TagSet)>>
    /\ sheetGrocery = {}
    /\ sheetCurrent = <<>>
    /\ items = <<>>
    /\ schedule = <<>>
    /\ groceryList = {}
    /\ currentMeals = <<>>
    /\ gen = IdleGen
    /\ now = 2
    /\ today = 1
    /\ call = IdleCall
    /\ app = [IdleApp EXCEPT !.pc = "init", !.maxOps = MaxCapOps]
    /\ IdlePage

\* the steps of the page on this day: its one slot produces a meal, so no
\* slot is skipped and there is no other meal to turn to
NextCap ==
    \/ CheckAndHandleNewDay
    \/ GenSlotMeal
    \/ GenSave
    \/ LoadMeals
    \/ replaceItem
    \/ openCategoryModal
    \/ closeCategoryModal
    \/ selectCategoryItem

SpecCap == InitCap /\ [][NextCap]_vars

(***************************************************************************)
(* Properties checked under SpecApp.                                       *)
(***************************************************************************)
\* no item name is in two different meals of the plan
NoItemInTwoMeals(meals) ==
    \A m1, m2 \in 1..Len(meals) : m1 # m2 =>
        ItemNames(meals[m1].items) \cap ItemNames(meals[m2].items) = {}

\* C11 (replacement respects the day's exclusion set): a swipe replacement
\* on a plan in which no item name is in two different meals leaves a plan
\* in which no item name is in two different meals.
C11_ReplacementKeepsDayExclusion ==
    (call.fn = "replaceItem" /\ NoItemInTwoMeals(call.mealsBefore)) =>
        NoItemInTwoMeals(app.meals)

\* C12 (category conflict prevention across all operations): in every
\* state of the page, after generation, swipes and picks in the category
\* chooser, no meal of the plan holds two items that share a category.
C12_NoCategoryConflict ==
    \A m \in 1..Len(app.meals) : PairwiseDisjoint(app.meals[m].items)

\* of the last replaceItem: the meal it was given, the categories of the
\* replaced item that its meal-mates do not cover, and the items inserted
ReplacedMeal == call.mealsBefore[call.mealIndex]
ReplacedNeeded ==
    CatsOf(ReplacedMeal.items[call.itemIndex])
        \ UnionCats(RemoveAt(ReplacedMeal.items, call.itemIndex))
ReplacedNothingFound ==
    call.replacementItems = <<>> \/ call.replacementItems[1] = <<>>

\* C13 (failure and redundancy are surfaced differently): when replaceItem
\* needs a category and finds no item for it, it shows 'No suitable
\* replacement found', the meal keeps its items and nothing is saved; the
\* item is removed without insertion only when no category is needed.
C13_FailureIsNotRemoval ==
    call.fn = "replaceItem" =>
        /\ (ReplacedNeeded # {} /\ ReplacedNothingFound) =>
              /\ call.shown = "No suitable replacement found"
              /\ app.meals = call.mealsBefore
              /\ sheetCurrent = call.rowsBefore
        /\ call.shown = "Removed - all categories already covered" =>
              ReplacedNeeded = {}

CallNeeded ==
    LET needed == CatsOf(call.existingMeal.items[call.itemIndexToReplace])
                    \ UnionCats(RemoveAt(call.existingMeal.items, call.itemIndexToReplace))
    IN SelectSeq(Tags, LAMBDA tag : tag \in needed)

\* C14 (needed-category computation): generateReplacement returns the empty
\* list when every category of the replaced item is covered by the other
\* items of the meal, and otherwise what findOptimalItemCombination returns
\* for the uncovered categories over the available items, every item of the
\* meal excluded.
C14_NeededCategories ==
    call.fn = "generateReplacement" =>
        IF CallNeeded = <<>> THEN call.result = <<>>
        ELSE /\ \E availableItems \in
                    getAvailableItems(items, groceryList, call.existingMeal.items) :
                    call.result = findOptimalItemCombination(CallNeeded, availableItems)
             /\ ItemNames(call.result) \cap ItemNames(call.existingMeal.items) = {}
             /\ UnionCats(call.result) \subseteq Range(CallNeeded)

\* C14's case: the replaced item of a two-item meal has a category its
\* meal-mate does not cover and a replacement is returned
C14_Witness ==
    /\ call.fn = "generateReplacement"
    /\ Len(call.existingMeal.items) = 2
    /\ CallNeeded # <<>>
    /\ call.result # <<>>

(***************************************************************************)
(* Properties checked under SpecCap.                                       *)
(***************************************************************************)
\* C16 (splice and cap after replacement): after a replaceItem that found
\* replacement items the meal has at most four items and every replacement
\* item is in it, at the vacated index and after, in the order returned:
\* the cut to four items takes none of them.
C16_SpliceAndCap ==
    (call.fn = "replaceItem" /\ call.shown = "Replaced") =>
        LET after == app.meals[call.mealIndex].items
            replacementItems == call.replacementItems[1]
        IN /\ Len(after) <= 4
           /\ \A k \in 1..Len(replacementItems) :
                 /\ call.itemIndex + k - 1 <= Len(after)
                 /\ after[call.itemIndex + k - 1] = replacementItems[k]

(***************************************************************************)
(* SpecPage: the page over a day boundary.  handleSignedInUser has reached *)
(* checkAndHandleNewDay; window focus events start further invocations of  *)
(* checkAndHandleNewDay; the user clicks Complete and Skip; midnight       *)
(* passes; an awaited call of the store may be rejected.  A step of the    *)
(* model runs one invocation from the await it is suspended at to its next *)
(* await (or its end): the single-threaded event loop runs that stretch    *)
(* without interruption and may run any other invocation between two       *)
(* stretches.  Clicks on Complete and Skip are taken only while the        *)
(* loading overlay is hidden and the buttons are enabled.                  *)
(***************************************************************************)
MaxPageFocus == 1       \* window focus events in SpecPage
MaxPageFailures == 1    \* store calls rejected in SpecPage
MaxMealsFocus == 1      \* window focus events in SpecMeals
MaxMealsClicks == 2     \* clicks on Complete or Skip in SpecMeals
MaxPageDay == 2         \* the last calendar day of the wall clock
MaxPageClock == 5       \* no focus event is handled after this tick

\* meal.status, "undefined" for a meal record generateSingleMeal built
StatusOf(meal) == IF "status" \in DOMAIN meal THEN meal.status ELSE "undefined"

\* currentMeal.status = status
SetStatus(meal, status) ==
    [f \in DOMAIN meal \cup {"status"} |-> IF f = "status" THEN status ELSE meal[f]]

\* updateUI(): no card on an empty plan; otherwise the card of the current
\* meal, and updateActionButtons(currentMeal.status)
updateUI(u, meals, index) ==
    IF Len(meals) = 0 THEN u
    ELSE [u EXCEPT !.screen = "card",
                   !.buttonsDisabled = StatusOf(meals[index]) \in {"completed", "skipped"}]

\* goToNextPendingMeal() after updateUI(): the index and the page it leaves
goToNextPendingMeal(u, meals, index) ==
    LET pending == {i \in 1..Len(meals) : i > index /\ StatusOf(meals[i]) = "pending"}
        pendingMealIndex == CHOOSE i \in pending : \A j \in pending : i <= j
        allCompleted == \A i \in 1..Len(meals) : StatusOf(meals[i]) # "pending"
    IN IF pending # {}
       THEN [index |-> pendingMealIndex, ui |-> updateUI(u, meals, pendingMealIndex)]
       ELSE IF allCompleted
       THEN [index |-> index,
             ui |-> [u EXCEPT !.screen = "allDone", !.buttonsDisabled = TRUE]]
       ELSE [index |-> index, ui |-> u]

\* handleNewDay: the rows it appends to the history sheet
historyData(currentMealsRead) ==
    LET completedMeals == SelectSeq(currentMealsRead, LAMBDA meal : meal.status = "completed")
    IN [m \in 1..Len(completedMeals) |->
           [date |-> completedMeals[m].date, mealName |-> completedMeals[m].mealName,
            itemNames |-> completedMeals[m].itemNames]]

\* the loop of generateMealsForToday from t.slot on, run on the catalog and
\* grocery list just loaded until generateSingleMeal returns a meal (its
\* items are then to be stamped) or the schedule is exhausted (the plan is
\* then to be saved): the states the invocation can be suspended in
RECURSIVE LoopFrom(_, _, _)
LoopFrom(t, catalog, grocery) ==
    IF t.slot > Len(t.schedule) THEN {[t EXCEPT !.pc = "save_clear"]}
    ELSE UNION {
        IF meal = <<>> THEN LoopFrom([t EXCEPT !.slot = @ + 1], catalog, grocery)
        ELSE {[t EXCEPT !.generatedMeals = Append(@, meal[1]),
                        !.usedItems = UsedAfter(@, meal[1]),
                        !.toStamp = meal[1].items,
                        !.timestamp = IsoCell(now),
                        !.pc = "gen_stamp"]} :
        meal \in generateSingleMeal(catalog, grocery, t.schedule[t.slot], t.usedItems)}

\* the rows of the current sheet and the items sheet as they are when an
\* operation starts
StoreNow == [rows |-> sheetCurrent, items |-> sheetItems]

\* checkAndHandleNewDay returns to its caller: the focus listener is done;
\* handleSignedInUser calls loadMeals, which shows the overlay and awaits
\* checkIfNeedsNewMeals
TaskAfterCheck(r) ==
    IF r = "signin" THEN [IdleTask EXCEPT !.pc = "lm_check"] ELSE IdleTask

\* the overlay after checkAndHandleNewDay: hideLoading() when it had shown
\* it or caught an error, then showLoading of handleSignedInUser
UiAfterCheck(r, shown) ==
    [ui EXCEPT !.isLoading = IF r = "signin" THEN TRUE ELSE IF shown THEN FALSE ELSE @]

\* the plan of day d the store may hold when the page opens
PlanOf(d) ==
    <<[date |-> MdyCell(d), mealName |-> "Breakfast", status |-> "pending",
       itemNames |-> <<"a", "", "", "">>],
      [date |-> MdyCell(d), mealName |-> "Lunch", status |-> "completed",
       itemNames |-> <<"b", "", "", "">>]>>

\* the store and the page when handleSignedInUser reaches
\* checkAndHandleNewDay
SignedIn ==
    /\ sheetItems = <<ItemRow("a", {"Carb"}, NeverCell), ItemRow("b", {"Carb"}, NeverCell)>>
    /\ sheetSchedule = <<SlotRow("Breakfast", {"Carb"}), SlotRow("Lunch", {"Carb"})>>
    /\ sheetGrocery = {}
    /\ sheetCurrent \in {<<>>, PlanOf(0), PlanOf(1)}
    /\ sheetHistory = <<>>
    /\ items = <<>>
    /\ schedule = <<>>
    /\ groceryList = {}
    /\ currentMeals = <<>>
    /\ gen = IdleGen
    /\ now = 2
    /\ today = 1
    /\ call = IdleCall
    /\ tasks = [NoTasks EXCEPT !["signin"] = [IdleTask EXCEPT !.pc = "check"]]
    /\ ui = [IdleUi EXCEPT !.isLoading = TRUE]
    /\ auth = IdleAuth

InitPage ==
    /\ SignedIn
    /\ app = [IdleApp EXCEPT !.pc = "page"]
    /\ env = [IdleEnv EXCEPT !.maxFailures = MaxPageFailures, !.maxFocus = MaxPageFocus]

\* window.addEventListener('focus', () => this.checkAndHandleNewDay())
WindowFocus ==
    /\ tasks["focus"].pc = "none"
    /\ env.focusEvents < env.maxFocus
    /\ now <= MaxPageClock
    /\ tasks' = [tasks EXCEPT !["focus"] = [IdleTask EXCEPT !.pc = "check"]]
    /\ env' = [env EXCEPT !.focusEvents = @ + 1]
    /\ UNCHANGED <<storeVars, generatorVars, gen, now, today, call, app, sheetHistory,
                   ui, auth>>

\* the local date changes
Midnight ==
    /\ today < MaxPageDay
    /\ today' = today + 1
    /\ UNCHANGED <<storeVars, generatorVars, gen, now, call, app, pageVars>>

\* checkAndHandleNewDay: await mealGenerator.checkIfNeedsNewMeals() returns.
\* A rejected read makes checkIfNeedsNewMeals return true (its catch).
AwaitCheckIfNeedsNewMeals(r) ==
    /\ r \in {"signin", "focus"}
    /\ tasks[r].pc = "check"
    /\ \E fails \in BOOLEAN :
       LET needsNewMeals == IF fails THEN TRUE ELSE checkIfNeedsNewMeals(sheetCurrent)
       IN /\ fails => env.failures < env.maxFailures
          /\ env' = IF fails THEN [env EXCEPT !.failures = @ + 1] ELSE env
          /\ currentMeals' = IF fails THEN currentMeals ELSE sheetCurrent
          /\ tasks' = [tasks EXCEPT ![r] =
                          IF needsNewMeals
                          THEN [IdleTask EXCEPT !.pc = "hnd_read",
                                                !.ret = "checkAndHandleNewDay",
                                                !.before = StoreNow]
                          ELSE TaskAfterCheck(r)]
          /\ ui' = IF needsNewMeals THEN [ui EXCEPT !.isLoading = TRUE]
                   ELSE UiAfterCheck(r, FALSE)
    /\ UNCHANGED <<storeVars, items, schedule, groceryList, gen, now, today, call, app,
                   sheetHistory, auth>>

\* handleNewDay: await sheetsAPI.getCurrentMeals() returns; the completed
\* meals, if any, are handed to appendRange, else the sheet is cleared when
\* it held rows, else generateMealsForToday starts
HandleNewDayGetCurrentMeals(r) ==
    /\ tasks[r].pc = "hnd_read"
    /\ tasks' = [tasks EXCEPT ![r] =
                    [@ EXCEPT !.currentMeals = sheetCurrent,
                              !.pc = IF Len(sheetCurrent) = 0 THEN "gen_load"
                                     ELSE IF Len(historyData(sheetCurrent)) > 0
                                     THEN "hnd_append" ELSE "hnd_clear"]]
    /\ UNCHANGED <<storeVars, generatorVars, gen, now, today, call, app, sheetHistory,
                   ui, auth, env>>

\* handleNewDay: await sheetsAPI.appendRange(CONFIG.SHEETS.HISTORY, historyData)
HandleNewDayAppendRange(r) ==
    /\ tasks[r].pc = "hnd_append"
    /\ sheetHistory' = sheetHistory \o historyData(tasks[r].currentMeals)
    /\ tasks' = [tasks EXCEPT ![r].pc = "hnd_clear"]
    /\ UNCHANGED <<storeVars, generatorVars, gen, now, today, call, app, ui, auth, env>>

\* handleNewDay: await sheetsAPI.clearRange(CONFIG.SHEETS.CURRENT, 'A:Z')
HandleNewDayClearRange(r) ==
    /\ tasks[r].pc = "hnd_clear"
    /\ sheetCurrent' = <<>>
    /\ tasks' = [tasks EXCEPT ![r].pc = "gen_load"]
    /\ UNCHANGED <<sheetItems, sheetSchedule, sheetGrocery, generatorVars, gen, now,
                   today, call, app, sheetHistory, ui, auth, env>>

\* generateMealsForToday: await this.loadData() returns, the locals are
\* made and the loop runs to its first await
GenerateLoadData(r) ==
    /\ tasks[r].pc = "gen_load"
    /\ items' = sheetItems
    /\ schedule' = sheetSchedule
    /\ groceryList' = sheetGrocery
    /\ \E t \in LoopFrom([tasks[r] EXCEPT !.slot = 1, !.schedule = sheetSchedule,
                                          !.generatedMeals = <<>>, !.usedItems = <<>>],
                         sheetItems, sheetGrocery) :
          /\ tasks' = [tasks EXCEPT ![r] = t]
          /\ now' = IF t.pc = "gen_stamp" THEN now + 1 ELSE now
    /\ UNCHANGED <<storeVars, currentMeals, gen, today, call, app, sheetHistory, ui,
                   auth, env>>

\* generateMealsForToday: await sheetsAPI.updateLastUsed(item.Item, timestamp)
\* returns for one item of the meal
GenerateUpdateLastUsed(r) ==
    /\ tasks[r].pc = "gen_stamp"
    /\ sheetItems' = updateLastUsed(sheetItems, Head(tasks[r].toStamp).Item,
                                    tasks[r].timestamp)
    /\ tasks' = [tasks EXCEPT ![r] =
                    [@ EXCEPT !.toStamp = Tail(@),
                              !.pc = IF Len(tasks[r].toStamp) = 1 THEN "gen_reload"
                                     ELSE "gen_stamp"]]
    /\ UNCHANGED <<sheetSchedule, sheetGrocery, sheetCurrent, generatorVars, gen, now,
                   today, call, app, sheetHistory, ui, auth, env>>

\* generateMealsForToday: the await this.loadData() after the stamps
\* returns and the loop runs on to its next await
GenerateReloadData(r) ==
    /\ tasks[r].pc = "gen_reload"
    /\ items' = sheetItems
    /\ schedule' = sheetSchedule
    /\ groceryList' = sheetGrocery
    /\ \E t \in LoopFrom([tasks[r] EXCEPT !.slot = @ + 1], sheetItems, sheetGrocery) :
          /\ tasks' = [tasks EXCEPT ![r] = t]
          /\ now' = IF t.pc = "gen_stamp" THEN now + 1 ELSE now
    /\ UNCHANGED <<storeVars, currentMeals, gen, today, call, app, sheetHistory, ui,
                   auth, env>>

\* saveCurrentMeals(meals): await this.clearRange(CONFIG.SHEETS.CURRENT,
\* 'A:Z') returns and the rows are prepared from meals as they are now,
\* under today's date: the generated meals, or this.meals after a click
SaveClearRange(r) ==
    /\ tasks[r].pc = "save_clear"
    /\ sheetCurrent' = <<>>
    /\ tasks' = [tasks EXCEPT ![r] =
                    [@ EXCEPT !.pc = "save_write",
                              !.data = CurrentRows(IF tasks[r].ret \in {"completeMeal", "skipMeal"}
                                                   THEN app.meals
                                                   ELSE tasks[r].generatedMeals)]]
    /\ UNCHANGED <<sheetItems, sheetSchedule, sheetGrocery, generatorVars, gen, now,
                   today, call, app, sheetHistory, ui, auth, env>>

\* saveCurrentMeals(generatedMeals): await this.writeRange(...) returns and
\* generateMealsForToday returns the plan: to handleNewDay and
\* checkAndHandleNewDay, or to loadMeals, which makes it this.meals
SaveGeneratedMeals(r) ==
    /\ tasks[r].pc = "save_write"
    /\ tasks[r].ret \in {"checkAndHandleNewDay", "loadMeals"}
    /\ sheetCurrent' = tasks[r].data
    /\ currentMeals' = tasks[r].generatedMeals
    /\ IF tasks[r].ret = "checkAndHandleNewDay"
       THEN /\ tasks' = [tasks EXCEPT ![r] = TaskAfterCheck(r)]
            /\ ui' = UiAfterCheck(r, TRUE)
            /\ app' = app
       ELSE /\ tasks' = [tasks EXCEPT ![r] = IdleTask]
            /\ app' = [app EXCEPT !.meals = tasks[r].generatedMeals,
                                  !.currentMealIndex = 1]
            /\ ui' = [updateUI(ui, tasks[r].generatedMeals, 1) EXCEPT !.isLoading = FALSE]
    /\ UNCHANGED <<sheetItems, sheetSchedule, sheetGrocery, items, schedule, groceryList,
                   gen, now, today, call, sheetHistory, auth, env>>

\* loadMeals: await mealGenerator.checkIfNeedsNewMeals() returns
LoadMealsCheck ==
    /\ tasks["signin"].pc = "lm_check"
    /\ \E fails \in BOOLEAN :
       LET needsNewMeals == IF fails THEN TRUE ELSE checkIfNeedsNewMeals(sheetCurrent)
       IN /\ fails => env.failures < env.maxFailures
          /\ env' = IF fails THEN [env EXCEPT !.failures = @ + 1] ELSE env
          /\ currentMeals' = IF fails THEN currentMeals ELSE sheetCurrent
          /\ tasks' = [tasks EXCEPT !["signin"] =
                          IF needsNewMeals
                          THEN [IdleTask EXCEPT !.pc = "gen_load", !.ret = "loadMeals",
                                                !.before = StoreNow]
                          ELSE IF Len(items) = 0
                          THEN [IdleTask EXCEPT !.pc = "lm_load", !.ret = "loadMeals"]
                          ELSE [IdleTask EXCEPT !.pc = "lm_read", !.ret = "loadMeals"]]
    /\ UNCHANGED <<storeVars, items, schedule, groceryList, gen, now, today, call, app,
                   sheetHistory, ui, auth>>

\* loadMeals: await mealGenerator.loadData() (mealGenerator.items was empty)
LoadMealsLoadData ==
    /\ tasks["signin"].pc = "lm_load"
    /\ items' = sheetItems
    /\ schedule' = sheetSchedule
    /\ groceryList' = sheetGrocery
    /\ tasks' = [tasks EXCEPT !["signin"].pc = "lm_read"]
    /\ UNCHANGED <<storeVars, currentMeals, gen, now, today, call, app, sheetHistory,
                   ui, auth, env>>

\* loadMeals: await mealGenerator.getCurrentMeals() returns, this.meals is
\* built from the rows, the first card is shown
LoadMealsGetCurrentMeals ==
    /\ tasks["signin"].pc = "lm_read"
    /\ currentMeals' = sheetCurrent
    /\ LET meals == MealsFromRows(items, schedule, sheetCurrent)
       IN /\ app' = [app EXCEPT !.meals = meals, !.currentMealIndex = 1]
          /\ ui' = [updateUI(ui, meals, 1) EXCEPT !.isLoading = FALSE]
    /\ tasks' = [tasks EXCEPT !["signin"] = IdleTask]
    /\ UNCHANGED <<storeVars, items, schedule, groceryList, gen, now, today, call,
                   sheetHistory, auth, env>>

\* the user can click Complete or Skip, and the click is handled by r
CanClick(r) ==
    /\ r \in {"click1", "click2"}
    /\ tasks[r].pc = "none"
    /\ r = "click2" => tasks["click1"].pc # "none"
    /\ app.ops < app.maxOps
    /\ ~ui.isLoading
    /\ ui.screen = "card"
    /\ ~ui.buttonsDisabled
    /\ Len(app.meals) > 0

\* the part of completeMeal and skipMeal up to the await of saveCurrentMeals
ClickStatus(r, fn, status) ==
    /\ app' = [app EXCEPT !.meals[app.currentMealIndex] = SetStatus(@, status),
                          !.ops = @ + 1]
    /\ tasks' = [tasks EXCEPT ![r] = [IdleTask EXCEPT !.pc = "save_clear", !.ret = fn,
                                                     !.mealIndex = app.currentMealIndex,
                                                     !.timestamp = IsoCell(now),
                                                     !.before = StoreNow]]
    /\ call' = [fn |-> fn, mealIndex |-> app.currentMealIndex, done |-> FALSE,
                at |-> now, meal |-> app.meals[app.currentMealIndex].name]
    /\ UNCHANGED <<storeVars, generatorVars, gen, now, today, sheetHistory, ui, auth, env>>

completeMeal(r) ==
    /\ CanClick(r)
    /\ ClickStatus(r, "completeMeal", "completed")

skipMeal(r) ==
    /\ CanClick(r)
    /\ ClickStatus(r, "skipMeal", "skipped")

\* completeMeal and skipMeal: await sheetsAPI.saveCurrentMeals(this.meals)
\* returns (its writeRange wrote the rows prepared), then updateUI() and
\* goToNextPendingMeal()
SaveClickedMeals(r) ==
    /\ tasks[r].pc = "save_write"
    /\ tasks[r].ret \in {"completeMeal", "skipMeal"}
    /\ sheetCurrent' = tasks[r].data
    /\ LET next == goToNextPendingMeal(updateUI(ui, app.meals, app.currentMealIndex),
                                       app.meals, app.currentMealIndex)
       IN /\ app' = [app EXCEPT !.currentMealIndex = next.index]
          /\ ui' = next.ui
    /\ tasks' = [tasks EXCEPT ![r] = IdleTask]
    /\ call' = [fn |-> tasks[r].ret, mealIndex |-> tasks[r].mealIndex, done |-> TRUE,
                at |-> tasks[r].timestamp.t, meal |-> app.meals[tasks[r].mealIndex].name]
    /\ UNCHANGED <<sheetItems, sheetSchedule, sheetGrocery, generatorVars, gen, now,
                   today, sheetHistory, auth, env>>

\* an awaited call of the store is rejected and the exception reaches the
\* catch of checkAndHandleNewDay, of loadMeals, or of completeMeal/skipMeal
StoreCallFails(r) ==
    /\ tasks[r].pc \in {"hnd_read", "hnd_append", "hnd_clear", "gen_load", "gen_stamp",
                        "gen_reload", "save_clear", "save_write", "lm_load", "lm_read"}
    /\ env.failures < env.maxFailures
    /\ env' = [env EXCEPT !.failures = @ + 1]
    /\ IF tasks[r].ret = "checkAndHandleNewDay"
       THEN /\ tasks' = [tasks EXCEPT ![r] = TaskAfterCheck(r)]
            /\ ui' = UiAfterCheck(r, TRUE)
       ELSE IF tasks[r].ret = "loadMeals"
       THEN /\ tasks' = [tasks EXCEPT ![r] = IdleTask]
            /\ ui' = [ui EXCEPT !.isLoading = FALSE]
       ELSE /\ tasks' = [tasks EXCEPT ![r] = IdleTask]
            /\ ui' = ui
    /\ UNCHANGED <<storeVars, generatorVars, gen, now, today, call, app, sheetHistory,
                   auth>>

\* the steps of checkAndHandleNewDay, handleNewDay, generateMealsForToday
\* and loadMeals
NewDaySteps ==
    \/ \E r \in TaskRoles : AwaitCheckIfNeedsNewMeals(r)
    \/ \E r \in TaskRoles : HandleNewDayGetCurrentMeals(r)
    \/ \E r \in TaskRoles : HandleNewDayAppendRange(r)
    \/ \E r \in TaskRoles : HandleNewDayClearRange(r)
    \/ \E r \in TaskRoles : GenerateLoadData(r)
    \/ \E r \in TaskRoles : GenerateUpdateLastUsed(r)
    \/ \E r \in TaskRoles : GenerateReloadData(r)
    \/ \E r \in TaskRoles : SaveClearRange(r)
    \/ \E r \in TaskRoles : SaveGeneratedMeals(r)
    \/ LoadMealsCheck
    \/ LoadMealsLoadData
    \/ LoadMealsGetCurrentMeals

NextPage ==
    \/ WindowFocus
    \/ Midnight
    \/ NewDaySteps
    \/ \E r \in TaskRoles : StoreCallFails(r)

SpecPage == InitPage /\ [][NextPage]_vars

(***************************************************************************)
(* Properties checked under SpecPage.                                      *)
(***************************************************************************)

\* a step in which a call of the store that r awaits in handleNewDay,
\* generateMealsForToday or saveCurrentMeals is rejected
FailsIn(r) ==
    /\ tasks[r].pc \in {"hnd_read", "hnd_append", "hnd_clear", "gen_load", "gen_stamp",
                        "gen_reload", "save_clear", "save_write"}
    /\ env'.failures = env.failures + 1
    /\ tasks'[r] # tasks[r]

\* C23 (no partial overwrite on store failure): when a call of the store
\* fails during a new-day transition, a day generation or a plan save, and
\* no other operation has run beside it, the rows of the current sheet and
\* the items sheet with its Last Used cells are what they were when the
\* operation started.
C23_NoPartialOverwrite ==
    [][\A r \in TaskRoles : (FailsIn(r) /\ env.focusEvents = 0) =>
          /\ sheetCurrent' = tasks[r].before.rows
          /\ sheetItems' = tasks[r].before.items]_vars

\* a step in which the checkIfNeedsNewMeals awaited by r returns, and the
\* value it returns
CheckReturnsIn(r) == tasks[r].pc \in {"check", "lm_check"} /\ tasks'[r] # tasks[r]
CheckReturnedTrue(r) == tasks'[r].pc \in {"hnd_read", "gen_load"}

\* C25 (regeneration guard): checkIfNeedsNewMeals returns true only if the
\* current sheet holds no plan or the date of its first row is not today's
\* date, and its return leaves the four sheets of the store as they were.
C25_RegenerationGuard ==
    [][\A r \in TaskRoles : CheckReturnsIn(r) =>
          /\ CheckReturnedTrue(r) =>
                (sheetCurrent = <<>> \/ sheetCurrent[1].date # MdyCell(today))
          /\ storeVars' = storeVars
          /\ sheetHistory' = sheetHistory]_vars

\* r runs handleNewDay or generateMealsForToday
Generating(r) ==
    /\ tasks[r].ret \in {"checkAndHandleNewDay", "loadMeals"}
    /\ tasks[r].pc \in {"hnd_read", "hnd_append", "hnd_clear", "gen_load", "gen_stamp",
                        "gen_reload", "save_clear", "save_write"}

\* C26 (generation is serialized): at no time are two invocations of
\* handleNewDay or generateMealsForToday in progress.
C26_GenerationSerialized ==
    \A r1, r2 \in TaskRoles : (Generating(r1) /\ Generating(r2)) => r1 = r2

\* C27 (the daily reset archives completed meals exactly once): no meal is
\* in the history sheet twice, and every row of the history sheet is a
\* completed meal of a plan the current sheet held.
C27_ArchivedExactlyOnce ==
    /\ \A i, j \in 1..Len(sheetHistory) : sheetHistory[i] = sheetHistory[j] => i = j
    /\ \A i \in 1..Len(sheetHistory) :
          \E d \in 0..MaxPageDay : \E m \in 1..Len(PlanOf(d)) :
             /\ PlanOf(d)[m].status = "completed"
             /\ sheetHistory[i].date = PlanOf(d)[m].date
             /\ sheetHistory[i].mealName = PlanOf(d)[m].mealName

(***************************************************************************)
(* SpecMeals: the same page with a user who clicks Complete and Skip, over *)
(* a store whose calls all succeed and which holds the plan of the day     *)
(* when the user signs in.                                                 *)
(***************************************************************************)
InitMeals ==
    /\ SignedIn
    /\ sheetCurrent = PlanOf(1)
    /\ app = [IdleApp EXCEPT !.pc = "page", !.maxOps = MaxMealsClicks]
    /\ env = [IdleEnv EXCEPT !.maxFocus = MaxMealsFocus]

NextMeals ==
    \/ WindowFocus
    \/ Midnight
    \/ NewDaySteps
    \/ \E r \in TaskRoles : completeMeal(r)
    \/ \E r \in TaskRoles : skipMeal(r)
    \/ \E r \in TaskRoles : SaveClickedMeals(r)

SpecMeals == InitMeals /\ [][NextMeals]_vars

(***************************************************************************)
(* Properties checked under SpecMeals.                                     *)
(***************************************************************************)

\* C21 (completing a meal marks its items as used): when completeMeal has
\* finished for a meal, every item of that meal has in the items sheet an
\* ISO Last Used taken no earlier than the click on Complete.
C21_CompleteMarksItemsUsed ==
    (call.fn = "completeMeal" /\ call.done) =>
        \A i \in 1..Len(app.meals[call.mealIndex].items) :
           LET lastUsed == LastUsedInStore(app.meals[call.mealIndex].items[i].Item)
           IN lastUsed.fmt = "iso" /\ lastUsed.t >= call.at

\* the meal names, statuses and item names of the rows of a plan
PlanShape(rows) ==
    [m \in 1..Len(rows) |-> [mealName |-> rows[m].mealName, status |-> rows[m].status,
                             itemNames |-> rows[m].itemNames]]

\* a step of an invocation of skipMeal handled by r
C22_StepOf(r) ==
    /\ (tasks[r].pc = "none" /\ tasks'[r].ret = "skipMeal") =>
          /\ sheetItems' = sheetItems
          /\ sheetCurrent' = sheetCurrent
          /\ app'.meals = [app.meals EXCEPT ![app.currentMealIndex] = SetStatus(@, "skipped")]
    /\ (tasks[r].ret = "skipMeal" /\ tasks[r].pc = "save_clear" /\ tasks'[r].pc = "save_write") =>
          /\ sheetItems' = sheetItems
          /\ app'.meals = app.meals
    /\ (tasks[r].ret = "skipMeal" /\ tasks[r].pc = "save_write" /\ tasks'[r].pc = "none") =>
          /\ sheetItems' = sheetItems
          /\ app'.meals = app.meals
          /\ Len(tasks[r].before.rows) >= tasks[r].mealIndex
          /\ PlanShape(sheetCurrent') =
                [PlanShape(tasks[r].before.rows) EXCEPT ![tasks[r].mealIndex].status = "skipped"]

\* C22 (skipping leaves usage untouched): no step of skipMeal changes a row
\* of the items sheet; in memory skipMeal changes the status of the current
\* meal to skipped and nothing else; and when it has finished, the plan in
\* the current sheet has the meal names, item names and statuses it had when
\* Skip was clicked, but for the status of that meal, which is skipped.
C22_SkipLeavesUsageUntouched == [][\A r \in {"click1", "click2"} : C22_StepOf(r)]_vars

\* a click of Complete or Skip handled by r: the synchronous part of
\* completeMeal or skipMeal
ClickStepOf(r) == tasks[r].pc = "none" /\ tasks'[r].ret \in {"completeMeal", "skipMeal"}

\* C24 (meal status is a one-way state machine): a click of Complete or Skip
\* changes the status of a meal only from pending (or from no status yet, as
\* a generated meal has) to completed or skipped; a meal that is completed or
\* skipped keeps its status, also when the click arrives while the save of an
\* earlier click is awaited.
C24_StatusOneWay ==
    [][\A r \in {"click1", "click2"} : ClickStepOf(r) =>
          /\ Len(app'.meals) = Len(app.meals)
          /\ \A m \in 1..Len(app.meals) :
                \/ StatusOf(app'.meals[m]) = StatusOf(app.meals[m])
                \/ /\ StatusOf(app.meals[m]) \in {"pending", "undefined"}
                   /\ StatusOf(app'.meals[m]) \in {"completed", "skipped"}]_vars

\* the meals after meal i that are neither completed nor skipped
UnfinishedAfter(meals, i) ==
    {j \in 1..Len(meals) : j > i /\ StatusOf(meals[j]) \notin {"completed", "skipped"}}

\* C29 (auto-advance to the next unfinished meal): when completeMeal or
\* skipMeal on meal i has finished and some later meal is neither completed
\* nor skipped, the current meal is the first such meal; and the page shows
\* All Done only when every meal of the plan is completed or skipped.
C29_AutoAdvance ==
    (call.fn \in {"completeMeal", "skipMeal"} /\ call.done) =>
        /\ UnfinishedAfter(app.meals, call.mealIndex) # {} =>
              /\ app.currentMealIndex \in UnfinishedAfter(app.meals, call.mealIndex)
              /\ \A j \in UnfinishedAfter(app.meals, call.mealIndex) : app.currentMealIndex <= j
        /\ ui.screen = "allDone" =>
              \A m \in 1..Len(app.meals) : StatusOf(app.meals[m]) \in {"completed", "skipped"}

\* no invocation of a handler of the page is in flight
NoOperationInFlight == \A r \in TaskRoles : tasks[r].pc = "none"

\* C30 (the in-memory plan matches the persisted plan), checked under
\* SpecPage: whenever no operation is in flight and no call of the store has
\* failed, the meals of the page have the meal names, item names and
\* statuses of the rows of the current sheet (a meal without status counted
\* as pending, as saveCurrentMeals writes it).
C30_MemoryMatchesStore ==
    (NoOperationInFlight /\ env.failures = 0) =>
        PlanShape(CurrentRows(app.meals)) = PlanShape(sheetCurrent)

(***************************************************************************)
(* SpecAuth: signing in and out.  GoogleSheetsAPI keeps the access token   *)
(* and its expiry, StorageHelper the copies in localStorage; timers is the *)
(* set of intervals the browser has scheduled, each with the id that       *)
(* setInterval returned.  null is 0; a token is the number of its issue;   *)
(* the clock counts quarters of an hour.                                   *)
(***************************************************************************)
MaxAuthSignIns == 2     \* clicks on Sign In
MaxAuthTokens == 3      \* access tokens issued
MaxAuthClock == 6       \* quarters of an hour the clock runs
TokenLife == 4          \* expires_in || 3600 seconds
FifteenMinutes == 1     \* 15 * 60 * 1000 ms

\* StorageHelper.saveAccessToken(token, expiresIn)
saveAccessToken(a, token) ==
    [a EXCEPT !.storedToken = token, !.storedExpiry = now + TokenLife]

\* StorageHelper.clearAccessToken()
clearAccessToken(a) == [a EXCEPT !.storedToken = 0, !.storedExpiry = 0]

\* the token client's callback on a response with an access token, up to
\* the computation of the expiry time
TokenReceived(a) ==
    [a EXCEPT !.accessToken = a.tokens + 1, !.tokens = @ + 1, !.isSignedIn = TRUE,
              !.tokenExpiryTime = now + TokenLife]

\* setupSilentReAuth(): the interval in silentAuthInterval, if any, is
\* cleared; an hourly interval is scheduled and its id kept; a ten-minute
\* interval is scheduled and its id dropped
setupSilentReAuth(a) ==
    [a EXCEPT !.timers = {t \in @ : t.id # a.silentAuthInterval}
                            \cup {[id |-> a.nextTimer, runs |-> "attemptSilentReAuth"],
                                  [id |-> a.nextTimer + 1, runs |-> "checkAndRefreshToken"]},
              !.silentAuthInterval = a.nextTimer,
              !.nextTimer = @ + 2]

\* clearSilentReAuth()
clearSilentReAuth(a) ==
    IF a.silentAuthInterval # 0
    THEN [a EXCEPT !.timers = {t \in @ : t.id # a.silentAuthInterval},
                   !.silentAuthInterval = 0]
    ELSE a

\* attemptSilentReAuth() up to its await: nothing without the stay logged in
\* preference, else a token is requested without prompt
attemptSilentReAuth(a) ==
    IF ~a.stayLoggedIn THEN a ELSE [a EXCEPT !.pending = TRUE]

\* checkAndRefreshToken()
checkAndRefreshToken(a) ==
    IF ~a.isSignedIn \/ a.tokenExpiryTime = 0 THEN a
    ELSE IF a.tokenExpiryTime - now < FifteenMinutes THEN attemptSilentReAuth(a)
    ELSE a

\* the page is loaded and sheetsAPI.initialize() has returned: nobody is
\* signed in, or tryRestoreSession has restored the stored token and
\* setupSilentReAuth has run
InitAuth ==
    /\ sheetItems = <<>>
    /\ sheetSchedule = <<>>
    /\ sheetGrocery = {}
    /\ sheetCurrent = <<>>
    /\ sheetHistory = <<>>
    /\ items = <<>>
    /\ schedule = <<>>
    /\ groceryList = {}
    /\ currentMeals = <<>>
    /\ gen = IdleGen
    /\ now = 1
    /\ today = 1
    /\ call = IdleCall
    /\ app = IdleApp
    /\ tasks = NoTasks
    /\ ui = IdleUi
    /\ env = IdleEnv
    /\ auth \in {IdleAuth,
                 [IdleAuth EXCEPT !.stayLoggedIn = FALSE],
                 setupSilentReAuth([IdleAuth EXCEPT !.accessToken = 1, !.tokens = 1,
                                                    !.isSignedIn = TRUE,
                                                    !.tokenExpiryTime = TokenLife,
                                                    !.storedToken = 1,
                                                    !.storedExpiry = TokenLife])}

\* MealPlanningApp.signIn() with the checkbox as the user left it, and the
\* callback of sheetsAPI.signIn() on the token
signIn(stayLoggedIn) ==
    /\ ~auth.isSignedIn
    /\ auth.signIns < MaxAuthSignIns
    /\ auth.tokens < MaxAuthTokens
    /\ LET saved == [auth EXCEPT !.stayLoggedIn = stayLoggedIn, !.signIns = @ + 1]
           received == TokenReceived(saved)
           stored == IF stayLoggedIn THEN saveAccessToken(received, received.accessToken)
                     ELSE received
       IN auth' = setupSilentReAuth(stored)
    /\ UNCHANGED <<storeVars, generatorVars, gen, now, today, call, app, sheetHistory,
                   tasks, ui, env>>

\* sheetsAPI.signOut(), called by MealPlanningApp.signOut()
signOut ==
    /\ auth.isSignedIn
    /\ LET revoked == IF auth.accessToken # 0
                      THEN clearAccessToken([auth EXCEPT !.accessToken = 0])
                      ELSE auth
       IN auth' = [clearSilentReAuth(revoked) EXCEPT !.isSignedIn = FALSE,
                                                     !.tokenExpiryTime = 0]
    /\ UNCHANGED <<storeVars, generatorVars, gen, now, today, call, app, sheetHistory,
                   tasks, ui, env>>

\* a scheduled interval fires and runs its callback; one silent request is
\* in flight at a time
IntervalFires ==
    /\ ~auth.pending
    /\ auth.tokens < MaxAuthTokens
    /\ \E t \in auth.timers :
          auth' = IF t.runs = "attemptSilentReAuth" THEN attemptSilentReAuth(auth)
                  ELSE checkAndRefreshToken(auth)
    /\ UNCHANGED <<storeVars, generatorVars, gen, now, today, call, app, sheetHistory,
                   tasks, ui, env>>

\* the response to the silent request: the callback installed by
\* attemptSilentReAuth takes the token and saves it, or the request fails
\* or times out
SilentReAuthResponse ==
    /\ auth.pending
    /\ \E granted \in BOOLEAN :
          auth' = IF granted
                  THEN LET received == TokenReceived([auth EXCEPT !.pending = FALSE])
                       IN saveAccessToken(received, received.accessToken)
                  ELSE [auth EXCEPT !.pending = FALSE]
    /\ UNCHANGED <<storeVars, generatorVars, gen, now, today, call, app, sheetHistory,
                   tasks, ui, env>>

\* a quarter of an hour passes
QuarterPasses ==
    /\ now < MaxAuthClock
    /\ now' = now + 1
    /\ UNCHANGED <<storeVars, generatorVars, gen, today, call, app, pageVars>>

NextAuth ==
    \/ \E stayLoggedIn \in BOOLEAN : signIn(stayLoggedIn)
    \/ signOut
    \/ IntervalFires
    \/ SilentReAuthResponse
    \/ QuarterPasses

SpecAuth == InitAuth /\ [][NextAuth]_vars

(***************************************************************************)
(* Properties checked under SpecAuth.                                      *)
(***************************************************************************)

\* a step of signOut: the only handler that resets isSignedIn
SignOutStep == auth.isSignedIn /\ ~auth'.isSignedIn

\* C28 (sign-out cleanup): when signOut has run, no interval scheduled by
\* setupSilentReAuth remains, neither the hourly one nor the ten-minute one,
\* and the access token and its expiry are cleared in GoogleSheetsAPI and
\* in localStorage.
C28_SignOutCleanup ==
    [][SignOutStep =>
          /\ auth'.timers = {}
          /\ auth'.accessToken = 0
          /\ auth'.tokenExpiryTime = 0
          /\ auth'.storedToken = 0
          /\ auth'.storedExpiry = 0]_vars

====
